---------------------------- MODULE Spec2Model ----------------------------
(***************************************************************************)
(* Model of the bid generator's JSON parse-and-retry engine, the           *)
(* concurrent fan-out of extraction tasks and the refinement endpoint      *)
(* (src/app.py), with the gateway client (src/openai_client.py) as the     *)
(* environment.                                                            *)
(*                                                                         *)
(* Texts.  A text is a record [body, pad]: the characters of body (each a  *)
(* one-character string) followed by pad copies of the character "x".     *)
(* The padding stands for a long tail of a reply, so that slices at        *)
(* 2000 characters are computed without storing 2000 characters.           *)
(***************************************************************************)
EXTENDS Integers, Sequences, FiniteSets, TLC

(***************************************************************************)
(* Bounds of the model.                                                    *)
(***************************************************************************)
MaxRetries == 2
MaxHistory == 3
MaxCalls == 4
MaxBrackets == 3

(***************************************************************************)
(* Program constants.                                                      *)
(***************************************************************************)
MAX_REFINEMENTS == 3
PreviewLen == 2000
DefaultRetries == 1
NTasksV2 == 5
NTasksV1 == 3
TaskIds == 1..NTasksV2

Min(a, b) == IF a <= b THEN a ELSE b

(***************************************************************************)
(* Characters.                                                             *)
(***************************************************************************)
QUOTE == "\""
PadChar == "x"
Whitespace == {" ", "\n"}
Digits == {"0", "1", "2", "3", "4", "5", "6", "7", "8", "9"}

DigitVal(c) ==
    CASE c = "0" -> 0 [] c = "1" -> 1 [] c = "2" -> 2 [] c = "3" -> 3
      [] c = "4" -> 4 [] c = "5" -> 5 [] c = "6" -> 6 [] c = "7" -> 7
      [] c = "8" -> 8 [] c = "9" -> 9

Text(body) == [body |-> body, pad |-> 0]
Padded(body, n) == [body |-> body, pad |-> n]
TextLen(t) == Len(t.body) + t.pad

\* Python's slice t[:n]
Slice(t, n) ==
    IF n <= Len(t.body)
    THEN [body |-> SubSeq(t.body, 1, n), pad |-> 0]
    ELSE [body |-> t.body, pad |-> Min(t.pad, n - Len(t.body))]

\* Python's a + b on strings (a is never padded where the program concatenates)
Concat(a, b) == [body |-> a.body \o b.body, pad |-> b.pad]

\* The characters the JSON scanner has to look at: the body and, when the
\* text is padded, the first padding character (the scanner stops there).
Scanned(t) == IF t.pad > 0 THEN t.body \o <<PadChar>> ELSE t.body

(***************************************************************************)
(* JSON values, as json.loads builds them:                                 *)
(*   dict  [t |-> "obj", m     |-> [keys -> values]]                       *)
(*   list  [t |-> "arr", items |-> <<values>>]                             *)
(*   str   [t |-> "str", s     |-> <<characters>>]                         *)
(*   int   [t |-> "num", n     |-> n]                                      *)
(*   True/False/None  [t |-> "lit", lit |-> "true"|"false"|"null"]         *)
(***************************************************************************)
JObj(m) == [t |-> "obj", m |-> m]
JArr(items) == [t |-> "arr", items |-> items]
JStr(s) == [t |-> "str", s |-> s]
JNum(n) == [t |-> "num", n |-> n]
JLit(l) == [t |-> "lit", lit |-> l]
EmptyMap == [k \in {} |-> 0]
EmptyObj == JObj(EmptyMap)
EmptyArr == JArr(<<>>)

\* dict[k] = v (a later duplicate key replaces an earlier one)
MapPut(m, k, v) == [x \in DOMAIN m \cup {k} |-> IF x = k THEN v ELSE m[x]]

\* A parse step: ok, the value, and the index after it.
Fail == [ok |-> FALSE, val |-> JLit("null"), next |-> 0]
Ok(v, i) == [ok |-> TRUE, val |-> v, next |-> i]

RECURSIVE SkipWs(_, _)
SkipWs(s, i) ==
    IF i <= Len(s) /\ s[i] \in Whitespace THEN SkipWs(s, i + 1) ELSE i

\* s[i] is the opening quote; the string ends at the next quote.
RECURSIVE ScanString(_, _, _)
ScanString(s, i, acc) ==
    IF i > Len(s) THEN Fail
    ELSE IF s[i] = QUOTE THEN Ok(JStr(acc), i + 1)
    ELSE ScanString(s, i + 1, Append(acc, s[i]))

RECURSIVE ScanDigits(_, _, _)
ScanDigits(s, i, acc) ==
    IF i <= Len(s) /\ s[i] \in Digits
    THEN ScanDigits(s, i + 1, 10 * acc + DigitVal(s[i]))
    ELSE Ok(JNum(acc), i)

\* JSON forbids leading zeros: after "0" the number is over.
ScanNumber(s, i) ==
    IF s[i] = "0" THEN Ok(JNum(0), i + 1) ELSE ScanDigits(s, i, 0)

HasWord(s, i, w) ==
    /\ i + Len(w) - 1 <= Len(s)
    /\ SubSeq(s, i, i + Len(w) - 1) = w

RECURSIVE ParseValue(_, _)
RECURSIVE ParseMembers(_, _, _)
RECURSIVE ParseElements(_, _, _)

\* After "{" or after a ",": a "key": value pair, then "," or "}".
ParseMembers(s, i, m) ==
    LET k == SkipWs(s, i) IN
    IF k > Len(s) \/ s[k] # QUOTE THEN Fail
    ELSE
      LET key == ScanString(s, k + 1, <<>>) IN
      IF ~key.ok THEN Fail
      ELSE
        LET c == SkipWs(s, key.next) IN
        IF c > Len(s) \/ s[c] # ":" THEN Fail
        ELSE
          LET v == ParseValue(s, SkipWs(s, c + 1)) IN
          IF ~v.ok THEN Fail
          ELSE
            LET e  == SkipWs(s, v.next)
                m2 == MapPut(m, key.val.s, v.val)
            IN
            IF e > Len(s) THEN Fail
            ELSE IF s[e] = "}" THEN Ok(JObj(m2), e + 1)
            ELSE IF s[e] = "," THEN ParseMembers(s, e + 1, m2)
            ELSE Fail

\* After "[" or after a ",": a value, then "," or "]".
ParseElements(s, i, items) ==
    LET v == ParseValue(s, SkipWs(s, i)) IN
    IF ~v.ok THEN Fail
    ELSE
      LET e   == SkipWs(s, v.next)
          it2 == Append(items, v.val)
      IN
      IF e > Len(s) THEN Fail
      ELSE IF s[e] = "]" THEN Ok(JArr(it2), e + 1)
      ELSE IF s[e] = "," THEN ParseElements(s, e + 1, it2)
      ELSE Fail

ParseValue(s, i) ==
    IF i > Len(s) THEN Fail
    ELSE IF s[i] = "{" THEN
      LET k == SkipWs(s, i + 1) IN
      IF k <= Len(s) /\ s[k] = "}" THEN Ok(EmptyObj, k + 1)
      ELSE ParseMembers(s, i + 1, EmptyMap)
    ELSE IF s[i] = "[" THEN
      LET k == SkipWs(s, i + 1) IN
      IF k <= Len(s) /\ s[k] = "]" THEN Ok(EmptyArr, k + 1)
      ELSE ParseElements(s, i + 1, <<>>)
    ELSE IF s[i] = QUOTE THEN ScanString(s, i + 1, <<>>)
    ELSE IF s[i] \in Digits THEN ScanNumber(s, i)
    ELSE IF HasWord(s, i, <<"t", "r", "u", "e">>) THEN Ok(JLit("true"), i + 4)
    ELSE IF HasWord(s, i, <<"f", "a", "l", "s", "e">>) THEN Ok(JLit("false"), i + 5)
    ELSE IF HasWord(s, i, <<"n", "u", "l", "l">>) THEN Ok(JLit("null"), i + 4)
    ELSE Fail

\* json.loads on a str: one value between optional whitespace, nothing after.
ParseText(t) ==
    LET s == Scanned(t)
        v == ParseValue(s, SkipWs(s, 1))
    IN
    IF v.ok /\ SkipWs(s, v.next) > Len(s) THEN [ok |-> TRUE, val |-> v.val]
    ELSE [ok |-> FALSE, val |-> JLit("null")]



(***************************************************************************)
(* What a gateway call (OpenAIClient.chat_json) can produce: the content   *)
(* string, a null content, or an exception.                                *)
(***************************************************************************)
NoText == Text(<<>>)
ReplyText(t) == [kind |-> "text", text |-> t, exc |-> ""]
ReplyNull == [kind |-> "null", text |-> NoText, exc |-> ""]
ReplyRaise(e) == [kind |-> "raise", text |-> NoText, exc |-> e]

\* str(None)
NoneStr == Text(<<"N", "o", "n", "e">>)

(***************************************************************************)
(* Outcome of a coroutine or of a request: nothing yet, a returned value,  *)
(* or a raised exception (HTTPException carries status and detail).        *)
(***************************************************************************)
NoOut ==
    [kind |-> "none", val |-> JLit("null"), exc |-> "", status |-> 0,
     detail |-> "", preview |-> NoText]
Returned(v) == [NoOut EXCEPT !.kind = "return", !.val = v]
RaisedExc(e) == [NoOut EXCEPT !.kind = "raise", !.exc = e]
RaisedHTTP(st, d, pv) ==
    [NoOut EXCEPT !.kind = "raise", !.exc = "HTTPException", !.status = st,
                  !.detail = d, !.preview = pv]

InvalidJsonDetail == "Model did not return valid JSON. Last response: "

(***************************************************************************)
(* Prompts are sequences of segments; + on str is concatenation.           *)
(***************************************************************************)
PREAMBLE ==
    "Your previous response was not valid JSON.\nReturn ONLY valid JSON that matches the schema. No markdown. No extra keys.\n\n"

CorrectivePrompt(user) == <<PREAMBLE>> \o user

(***************************************************************************)
(* Python operations on parsed values used by the merge and the renderer.  *)
(***************************************************************************)
JErr(e) == [t |-> "err", exc |-> e]

\* d.get(k, default)
PyGet(o, k, d) == IF k \in DOMAIN o.m THEN o.m[k] ELSE d

\* bool(v)
Truthy(v) ==
    CASE v.t = "obj" -> DOMAIN v.m # {}
      [] v.t = "arr" -> v.items # <<>>
      [] v.t = "str" -> v.s # <<>>
      [] v.t = "num" -> v.n # 0
      [] v.t = "lit" -> v.lit = "true"
      [] OTHER -> FALSE

IsInt(v) == v.t = "num" \/ (v.t = "lit" /\ v.lit \in {"true", "false"})
IntOf(v) == IF v.t = "num" THEN v.n ELSE IF v.lit = "true" THEN 1 ELSE 0

\* a + b: lists and strings concatenate, ints (and bools) add, anything
\* else is a TypeError.
PyAdd(a, b) ==
    IF a.t = "err" THEN a
    ELSE IF a.t = "arr" /\ b.t = "arr" THEN JArr(a.items \o b.items)
    ELSE IF a.t = "str" /\ b.t = "str" THEN JStr(a.s \o b.s)
    ELSE IF IsInt(a) /\ IsInt(b) THEN JNum(IntOf(a) + IntOf(b))
    ELSE JErr("TypeError")

(***************************************************************************)
(* Section keys.                                                           *)
(***************************************************************************)
K_meta == <<"m", "e", "t", "a">>
K_header == <<"h", "e", "a", "d", "e", "r">>
K_table == <<"t", "a", "b", "l", "e">>
K_table1 == K_table \o <<"1">>
K_table2 == K_table \o <<"2">>
K_table3 == K_table \o <<"3">>
K_table4 == K_table \o <<"4">>
K_table5 == K_table \o <<"5">>
K_table6 == K_table \o <<"6">>
K_table7 == K_table \o <<"7">>
K_table8 == K_table \o <<"8">>
K_table9 == K_table \o <<"9">>
K_table10 == K_table \o <<"1", "0">>
K_gaps == <<"a", "s", "s", "u", "m", "p", "t", "i", "o", "n", "s", "_",
            "o", "r", "_", "g", "a", "p", "s">>
K_cover == <<"c", "o", "v", "e", "r", "_", "p", "a", "g", "e">>
K_quantity == <<"q", "u", "a", "n", "t", "i", "t", "y", "_",
                "e", "s", "t", "i", "m", "a", "t", "i", "o", "n">>

(***************************************************************************)
(* Reply texts.                                                            *)
(***************************************************************************)
T_object == Text(<<"{", QUOTE, "a", QUOTE, ":", "1", "}">>)
T_array == Text(<<"[", "1", "]">>)
T_prose == Text(<<"S", "u", "r", "e">>)
T_truncated == Text(<<"{", QUOTE, "a", QUOTE, ":", "[", "1">>)
T_long == Padded(<<"n", "o">>, PreviewLen + 1)

\* The grave accent (U+0060), which the string syntax of TLA+ does not
\* admit: it is written as a token of its own.
GRAVE == "grave"
FENCE == <<GRAVE, GRAVE, GRAVE>>

\* Sure! <fence>json {"table1": {"rows": []}} <fence>
K_rows == <<"r", "o", "w", "s">>
T_fenced ==
    Text(<<"S", "u", "r", "e", "!", " ">> \o FENCE \o <<"j", "s", "o", "n", " ">>
         \o <<"{", QUOTE>> \o K_table1 \o <<QUOTE, ":", " ", "{", QUOTE>> \o K_rows
         \o <<QUOTE>>
         \o <<":", " ", "[", "]", "}", "}", " ">> \o FENCE)

EngineReplies ==
    {ReplyText(T_object), ReplyText(T_array), ReplyText(T_prose),
     ReplyText(T_truncated), ReplyText(T_long), ReplyText(T_fenced), ReplyNull,
     ReplyRaise("HTTPStatusError")}

(***************************************************************************)
(* Replies to the tasks of a fan-out.  Task t answers with a dict holding  *)
(* the first key it owns and (except task 4) one assumptions_or_gaps       *)
(* entry, or with prose; task 2 may also return a key of task 1 and two    *)
(* assumptions_or_gaps entries, and task 3 a list.                         *)
(***************************************************************************)
DigitChar(t) == <<"1", "2", "3", "4", "5">>[t]
Lit(k) == <<QUOTE>> \o k \o <<QUOTE>>
FirstKey(t) == <<K_table1, K_table2, K_table3, K_table6, K_table8>>[t]
Section(k, t) == Lit(k) \o <<":", "{">> \o Lit(<<"n">>) \o <<":", DigitChar(t), "}">>
Gaps(t) == Lit(K_gaps) \o <<":", "[">> \o Lit(<<"g", DigitChar(t)>>) \o <<"]">>

T_good(t) ==
    Text(<<"{">> \o Section(FirstKey(t), t)
         \o (IF t = 4 THEN <<>> ELSE <<",">> \o Gaps(t)) \o <<"}">>)
\* Two entries, the first the same string as the entry of task 1.
GapsTwo(t) ==
    Lit(K_gaps) \o <<":", "[">> \o Lit(<<"g", "1">>) \o <<",">>
      \o Lit(<<"g", DigitChar(t)>>) \o <<"]">>

T_stray(t) ==
    Text(<<"{">> \o Section(K_table1, t) \o <<",">> \o Section(FirstKey(t), t)
         \o <<",">> \o GapsTwo(t) \o <<"}">>)

FanoutReplies(t) ==
    {ReplyText(T_good(t)), ReplyText(T_prose)}
      \cup (IF t = 2 THEN {ReplyText(T_stray(t))} ELSE {})
      \cup (IF t = 3 THEN {ReplyText(T_array)} ELSE {})

T_document ==
    Text(<<"{">> \o Section(K_table1, 1) \o <<",">> \o Section(K_table2, 2) \o <<"}">>)
T_update == Text(<<"{">> \o Section(K_table1, 3) \o <<"}">>)

\* Every reply text of the model with its parse, computed once.
ReplyTexts ==
    {T_object, T_array, T_prose, T_truncated, T_long, T_fenced}
      \cup {T_good(t) : t \in TaskIds} \cup {T_stray(t) : t \in TaskIds}
      \cup {T_document, T_update}
ParsedReplyTexts == [x \in ReplyTexts |-> ParseText(x)]

\* json.loads(raw) for the raw value chat_json returned: a str, or None when
\* the message content is null (json.loads(None) raises TypeError).
JsonLoads(raw) ==
    IF raw.kind # "text" THEN [ok |-> FALSE, val |-> JLit("null")]
    ELSE IF raw.text \in DOMAIN ParsedReplyTexts THEN ParsedReplyTexts[raw.text]
    ELSE ParseText(raw.text)

(***************************************************************************)
(* The environment variables _cfg reads: each is unset, or set to a        *)
(* string (empty, blank, or a value).                                      *)
(***************************************************************************)
EnvNames == {"OPENAI_API_KEY", "OPENAI_BASE_URL", "OPENAI_MODEL"}
Unset == [set |-> FALSE, value |-> <<>>]
EnvSet(v) == [set |-> TRUE, value |-> v]
EnvValues == {Unset, EnvSet(<<>>), EnvSet(<<" ">>), EnvSet(<<"v">>)}
Envs == [EnvNames -> EnvValues]
GoodEnv == [k \in EnvNames |-> EnvSet(<<"v">>)]

\* os.getenv(name, "")
Getenv(e, k) == IF e[k].set THEN e[k].value ELSE <<>>

\* str.strip()
RECURSIVE LStrip(_)
LStrip(s) == IF s # <<>> /\ Head(s) \in Whitespace THEN LStrip(Tail(s)) ELSE s
RECURSIVE RStrip(_)
RStrip(s) ==
    IF s # <<>> /\ s[Len(s)] \in Whitespace THEN RStrip(SubSeq(s, 1, Len(s) - 1)) ELSE s
Strip(s) == RStrip(LStrip(s))

\* Lines 53-59: _cfg returns a configuration (it raises RuntimeError
\* otherwise).
CfgPresent_noStrip(e) == \A k \in EnvNames : Getenv(e, k) # <<>>
CfgPresent(e) == \A k \in EnvNames : Strip(Getenv(e, k)) # <<>>

(***************************************************************************)
(* OpenAIClient.chat_json (src/openai_client.py): the request it posts,    *)
(* what the HTTP exchange can give, and what it makes of the body.         *)
(***************************************************************************)
K_choices == <<"c", "h", "o", "i", "c", "e", "s">>
K_message == <<"m", "e", "s", "s", "a", "g", "e">>
K_content == <<"c", "o", "n", "t", "e", "n", "t">>

\* Line 31: base_url.rstrip("/") + "/chat/completions"
RECURSIVE RStripSlash(_)
RStripSlash(u) ==
    IF u # <<>> /\ u[Len(u)] = "/" THEN RStripSlash(SubSeq(u, 1, Len(u) - 1)) ELSE u
Url(base) == RStripSlash(base) \o <<"/chat/completions">>

\* Lines 33-46: the headers and the payload.
Payload(cfg, sys, usr) ==
    [url |-> Url(cfg.base_url),
     authorization |-> <<"Bearer ", cfg.api_key>>,
     model |-> cfg.model,
     messages |-> <<[role |-> "system", content |-> sys],
                    [role |-> "user", content |-> usr]>>]

\* Lines 49-51: client.post raises a transport error, raise_for_status
\* raises on a 4xx or 5xx status, r.json() raises on a body that is not
\* JSON, or data is the parsed body.
HttpRaises(step, e) == [kind |-> step, exc |-> e, data |-> JLit("null")]
HttpBody(d) == [kind |-> "body", exc |-> "", data |-> d]
NoHttp == [kind |-> "none", exc |-> "", data |-> JLit("null")]

\* A subscript gives a value or raises.
Got(v) == [exc |-> "", val |-> v]
Err(e) == [exc |-> e, val |-> JLit("null")]

\* v[k] for a str key k: a dict looks the key up; a list, a str, a number
\* and None raise TypeError.
GetKey(v, k) ==
    IF v.t = "obj" THEN (IF k \in DOMAIN v.m THEN Got(v.m[k]) ELSE Err("KeyError"))
    ELSE Err("TypeError")

\* v[0]: the first element of a list, the first character of a str, a key
\* no JSON dict has, and a TypeError for a number and for None.
GetFirst(v) ==
    CASE v.t = "arr" -> IF v.items # <<>> THEN Got(v.items[1]) ELSE Err("IndexError")
      [] v.t = "str" -> IF v.s # <<>> THEN Got(JStr(<<v.s[1]>>)) ELSE Err("IndexError")
      [] v.t = "obj" -> Err("KeyError")
      [] OTHER -> Err("TypeError")

\* Line 55: data["choices"][0]["message"]["content"]
ContentOf(data) ==
    LET c == GetKey(data, K_choices) IN
    IF c.exc # "" THEN c
    ELSE LET f == GetFirst(c.val) IN
         IF f.exc # "" THEN f
         ELSE LET m == GetKey(f.val, K_message) IN
              IF m.exc # "" THEN m ELSE GetKey(m.val, K_content)

\* Lines 56-57: except (KeyError, IndexError)
ShapeErrors == {"KeyError", "IndexError"}
UnexpectedShape ==
    [RaisedExc("RuntimeError") EXCEPT !.detail = "Unexpected response shape: {data}"]

\* Lines 48-57: what chat_json returns or raises after the exchange h.
ChatJsonOutcome(h) ==
    IF h.kind # "body" THEN RaisedExc(h.exc)
    ELSE LET c == ContentOf(h.data) IN
         IF c.exc = "" THEN Returned(c.val)
         ELSE IF c.exc \in ShapeErrors THEN UnexpectedShape
         ELSE RaisedExc(c.exc)

(***************************************************************************)
(* Document texts on their way into the prompt (src/extract.py and         *)
(* _maybe_filter in src/app.py).  A text is the sequence of its lines, the *)
(* "\n" between them understood; a line is its number of characters, the   *)
(* lower-case keywords that occur in it, and whether it is whitespace      *)
(* only.  A line that is not blank has no whitespace at either end.        *)
(***************************************************************************)
WindowLines == 4
MaxChars == 60000
FallbackChars == 30000

Line(n, kws) == [len |-> n, kws |-> kws, blank |-> FALSE, tag |-> "text", name |-> <<>>]
BlankLine(n) == [len |-> n, kws |-> {}, blank |-> TRUE, tag |-> "text", name |-> <<>>]
EmptyText == <<BlankLine(0)>>

\* len(text)
RECURSIVE DocLen(_)
DocLen(ls) ==
    IF Len(ls) = 1 THEN ls[1].len ELSE ls[1].len + 1 + DocLen(Tail(ls))

\* not text.strip()
IsBlankText(ls) == \A i \in DOMAIN ls : ls[i].blank

\* text.strip()
RECURSIVE LStripLines(_)
LStripLines(ls) ==
    IF ls = <<>> THEN <<>> ELSE IF ls[1].blank THEN LStripLines(Tail(ls)) ELSE ls
RECURSIVE RStripLines(_)
RStripLines(ls) ==
    IF ls = <<>> THEN <<>>
    ELSE IF ls[Len(ls)].blank THEN RStripLines(SubSeq(ls, 1, Len(ls) - 1)) ELSE ls
StripLines(ls) == LET s == RStripLines(LStripLines(ls)) IN IF s = <<>> THEN EmptyText ELSE s

\* text[:n]
RECURSIVE Cut(_, _)
Cut(ls, n) ==
    IF n = 0 THEN EmptyText
    ELSE IF ls[1].len >= n THEN <<[ls[1] EXCEPT !.len = n]>>
    ELSE IF Len(ls) = 1 THEN ls
    ELSE <<ls[1]>> \o Cut(Tail(ls), n - ls[1].len - 1)

\* "\n".join(kept)
JoinLines(kept) == IF kept = <<>> THEN EmptyText ELSE kept

\* [ln for ln, h in zip(lines, hits) if h]
RECURSIVE KeptLines(_, _, _)
KeptLines(ls, hits, i) ==
    IF i > Len(ls) THEN <<>>
    ELSE (IF i \in hits THEN <<ls[i]>> ELSE <<>>) \o KeptLines(ls, hits, i + 1)

\* k.lower(), k.strip()
LowerWord(k) == IF k = "PI" THEN "pi" ELSE k
IsBlankWord(k) == k \in {"", " "}

TruncatedMark ==
    [len |-> 17, kws |-> {}, blank |-> FALSE, tag |-> "truncated", name |-> <<>>]

\* keyword_window(text, keywords, window_lines, max_chars)
KeywordWindow(text, keywords, window_lines, max_chars) ==
    IF IsBlankText(text) THEN EmptyText
    ELSE LET kws == {LowerWord(keywords[i]) : i \in {j \in DOMAIN keywords : ~IsBlankWord(keywords[j])}}
             found == {i \in DOMAIN text : text[i].kws \cap kws # {}}
             hits == {j \in DOMAIN text :
                         \E i \in found : i - window_lines <= j /\ j <= i + window_lines}
             joined == StripLines(JoinLines(KeptLines(text, hits, 1)))
         IN IF DocLen(joined) > max_chars
            THEN Cut(joined, max_chars) \o <<TruncatedMark>>
            ELSE joined

\* _maybe_filter(docs, keywords, disable), src/app.py lines 91-102
MaybeFilter(docs, keywords, disable) ==
    IF disable THEN docs
    ELSE [i \in DOMAIN docs |->
            LET filtered == KeywordWindow(docs[i].text, keywords, WindowLines, MaxChars) IN
            [filename |-> docs[i].filename,
             text |-> IF IsBlankText(filtered)
                      THEN Cut(docs[i].text, FallbackChars)
                      ELSE filtered]]

\* build_context(docs): each document between a BEGIN and an END line, the
\* part ending in "\n", the parts joined by "\n".
DocMark(tag, filename) ==
    [len |-> (IF tag = "begin" THEN 23 ELSE 21) + Len(filename),
     kws |-> {}, blank |-> FALSE, tag |-> tag, name |-> filename]
RECURSIVE BuildContext(_)
BuildContext(docs) ==
    IF docs = <<>> THEN <<>>
    ELSE <<DocMark("begin", docs[1].filename)>> \o docs[1].text
            \o <<DocMark("end", docs[1].filename), BlankLine(0)>>
            \o BuildContext(Tail(docs))

(***************************************************************************)
(* The response normalizer and the truncation detector.  Neither is in     *)
(* src/ (line 118 of src/app.py hands the raw reply to json.loads); they   *)
(* are modelled from section 4.1 of the specification, on sequences of     *)
(* characters.                                                             *)
(***************************************************************************)
Opens == {"{", "["}
Closes == {"}", "]"}
Structural == {",", "}", "]", "\n"}
Letters ==
    {"a", "b", "c", "d", "e", "f", "g", "h", "i", "j", "k", "l", "m", "n",
     "o", "p", "q", "r", "s", "t", "u", "v", "w", "x", "y", "z",
     "F", "N", "S", "T"}
WordChars == Letters \cup Digits \cup {"_"}
JsonTag == <<"j", "s", "o", "n">>

HasPrefix(s, p) == Len(s) >= Len(p) /\ SubSeq(s, 1, Len(p)) = p
HasSuffix(s, p) == Len(s) >= Len(p) /\ SubSeq(s, Len(s) - Len(p) + 1, Len(s)) = p

\* Step 2: the leading fence marker (the fence, its json tag if it has
\* one, and the whitespace after it) and the trailing fence marker (the
\* fence and the whitespace before it).
StripLeadingFence(s) ==
    IF HasPrefix(s, FENCE \o JsonTag)
    THEN LStrip(SubSeq(s, Len(FENCE) + Len(JsonTag) + 1, Len(s)))
    ELSE IF HasPrefix(s, FENCE) THEN LStrip(SubSeq(s, Len(FENCE) + 1, Len(s)))
    ELSE s
StripTrailingFence_kept(s) == s
StripTrailingFence(s) ==
    IF HasSuffix(s, FENCE) THEN RStrip(SubSeq(s, 1, Len(s) - Len(FENCE))) ELSE s
StripFences(s) == StripTrailingFence(StripLeadingFence(s))

RECURSIVE FirstIn(_, _, _)
FirstIn(s, chars, i) ==
    IF i > Len(s) THEN 0 ELSE IF s[i] \in chars THEN i ELSE FirstIn(s, chars, i + 1)
RECURSIVE LastIn(_, _, _)
LastIn(s, chars, i) ==
    IF i < 1 THEN 0 ELSE IF s[i] \in chars THEN i ELSE LastIn(s, chars, i - 1)

\* Steps 3 and 4: the span from the first "{" or "[" to the last "}" or "]".
CutBeforeFirstOpen(s) ==
    LET i == FirstIn(s, Opens, 1) IN IF i = 0 THEN s ELSE SubSeq(s, i, Len(s))
CutAfterLastClose(s) ==
    LET i == LastIn(s, Closes, Len(s)) IN IF i = 0 THEN s ELSE SubSeq(s, 1, i)

\* s without the characters at the positions in D.
RECURSIVE DropAt(_, _, _)
DropAt(s, D, i) ==
    IF i > Len(s) THEN <<>>
    ELSE (IF i \in D THEN <<>> ELSE <<s[i]>>) \o DropAt(s, D, i + 1)

\* Step 5, first repair: a comma directly before a closing "}" or "]".
TrailingCommas(s) ==
    {i \in DOMAIN s : s[i] = "," /\ i < Len(s) /\ s[i + 1] \in Closes}
RemoveTrailingCommas(s) == DropAt(s, TrailingCommas(s), 1)

\* Step 5, second repair: a digit, a comma, exactly three digits, then a
\* structural character.
ThousandsCommas(s) ==
    {i \in DOMAIN s :
        /\ s[i] = ","
        /\ i > 1
        /\ s[i - 1] \in Digits
        /\ i + 4 <= Len(s)
        /\ \A k \in 1..3 : s[i + k] \in Digits
        /\ s[i + 4] \in Structural}
CollapseThousands(s) == DropAt(s, ThousandsCommas(s), 1)

\* Step 5, third repair: None, True and False as whole words.
IsWordAt(s, i, w) ==
    /\ HasWord(s, i, w)
    /\ i = 1 \/ s[i - 1] \notin WordChars
    /\ i + Len(w) > Len(s) \/ s[i + Len(w)] \notin WordChars

RECURSIVE ReplaceLiterals(_, _)
ReplaceLiterals(s, i) ==
    IF i > Len(s) THEN <<>>
    ELSE IF IsWordAt(s, i, <<"N", "o", "n", "e">>)
         THEN <<"n", "u", "l", "l">> \o ReplaceLiterals(s, i + 4)
    ELSE IF IsWordAt(s, i, <<"T", "r", "u", "e">>)
         THEN <<"t", "r", "u", "e">> \o ReplaceLiterals(s, i + 4)
    ELSE IF IsWordAt(s, i, <<"F", "a", "l", "s", "e">>)
         THEN <<"f", "a", "l", "s", "e">> \o ReplaceLiterals(s, i + 5)
    ELSE <<s[i]>> \o ReplaceLiterals(s, i + 1)

Repair(s) == ReplaceLiterals(CollapseThousands(RemoveTrailingCommas(s)), 1)

\* normalize(raw): steps 1 to 5 in order.
Normalize(s) ==
    Repair(CutAfterLastClose(CutBeforeFirstOpen(StripFences(Strip(s)))))

RECURSIVE CountIn(_, _)
CountIn(s, chars) ==
    IF s = <<>> THEN 0
    ELSE (IF Head(s) \in chars THEN 1 ELSE 0) + CountIn(Tail(s), chars)

\* is_truncated(text): more opening than closing brackets.
IsTruncated_orEqual(t) == CountIn(t.body, {"{", "["}) >= CountIn(t.body, {"}", "]"})
IsTruncated(t) == CountIn(t.body, {"{", "["}) > CountIn(t.body, {"}", "]"})

(***************************************************************************)
(* State.  Every coroutine running _parse_json_or_retry_async is a task    *)
(* with an identifier; its local variables are the functions below.        *)
(***************************************************************************)
VARIABLES
    pc,        \* task -> "none" | "ready" | "awaiting" | "returned" | "raised"
    retries,   \* task -> the retries argument
    attempt,   \* task -> the loop variable
    system,    \* task -> the system prompt argument
    original,  \* task -> the user prompt the task was called with
    user,      \* task -> the local variable user
    last,      \* task -> the local variable last (a reply; kind "none" for None)
    out,       \* task -> what the coroutine returned or raised
    sent,      \* task -> the (system, user) pairs handed to chat_json, in order
    got        \* task -> the replies chat_json produced, in order

engineVars == <<pc, retries, attempt, system, original, user, last, out, sent, got>>

(***************************************************************************)
(* A generate request (generate_bid_excel / generate_bid_excel_v2): the    *)
(* handler, the future asyncio.gather returns, and the response.           *)
(***************************************************************************)
VARIABLES
    endpoint,  \* "none" | "v1" | "v2" | "refine": the route of the request
    env,       \* the process environment _cfg reads
    req,       \* "idle" | "gathering" | "responded": where the handler is
    gather,    \* the future of asyncio.gather
    finished,  \* the tasks of the gather that are done, in the order they finished
    response   \* what the caller of the request received

requestVars == <<endpoint, env, req, gather, finished, response>>

(***************************************************************************)
(* A refinement session: the conversation the client holds, and the        *)
(* refine_extraction request in flight.                                    *)
(***************************************************************************)
VARIABLES
    history,   \* client: the turns so far, each [role, content]
    current,   \* client: the extraction it round-trips as current_extraction
    ncalls,    \* client: refine requests sent in this session
    succeeded, \* client: refine requests answered with success
    rpc,       \* "idle" | "awaiting": where the handler is
    rHist,     \* req.conversation_history of the request
    rMsg,      \* req.user_message of the request
    rTurns,    \* the local variable user_turns
    rSent,     \* the (system, user) pairs the request handed to chat_json
    rGot,      \* the replies chat_json produced for the request
    rResp      \* the response to the last request

refineVars ==
    <<history, current, ncalls, succeeded, rpc, rHist, rMsg, rTurns, rSent, rGot, rResp>>

(***************************************************************************)
(* A text under normalization: the parts it was put together from, the     *)
(* text and its successive normalizations, and the truncation checks made. *)
(***************************************************************************)
VARIABLES
    nParts,    \* the input: [fenced, tag, lead, body, trail]
    nTexts,    \* <<raw, normalize(raw), normalize(normalize(raw))>> so far
    nChecked   \* the checks made, each [text, truncated]

normVars == <<nParts, nTexts, nChecked>>

(***************************************************************************)
(* One OpenAIClient.chat_json call: the client's configuration, the        *)
(* request it posted, what the HTTP exchange gave, and its outcome.        *)
(***************************************************************************)
VARIABLES
    gwCfg,     \* self.cfg: [api_key, base_url, model]
    gwSent,    \* the request posted: [url, authorization, model, messages]
    gwHttp,    \* what client.post, raise_for_status and r.json() gave
    gwOut      \* what chat_json returned or raised

gatewayVars == <<gwCfg, gwSent, gwHttp, gwOut>>

(***************************************************************************)
(* The documents of one generate request on their way into the prompt:     *)
(* as ingested, as _maybe_filter left them, and the context built.         *)
(***************************************************************************)
VARIABLES
    fDocs,      \* docs_full: the ingested documents, each [filename, text]
    fKeywords,  \* the keyword list handed to _maybe_filter
    fDisable,   \* disable_filter
    fOut,       \* the documents _maybe_filter returned
    fContext,   \* build_context of them: its lines
    fpc         \* "ingested", "filtered" or "built"

filterVars == <<fDocs, fKeywords, fDisable, fOut, fContext, fpc>>

toolVars == <<gatewayVars, filterVars>>

NoReply == [kind |-> "none", text |-> NoText, exc |-> ""]

\* Line 114: range(retries + 1) is empty when retries < 0.
LoopRuns(r) == r + 1 > 0

\* Line 118: json.loads is given the reply of this attempt.
ParseTarget_stale(raw, prev) == prev
ParseTarget(raw, prev) == raw

\* Line 120: the attempt that may not be followed by another.
BudgetSpent_offByOne(a, r) == a > r
BudgetSpent(a, r) == a >= r

\* Line 123: raw[:2000] (a TypeError when raw is None: see EngineFail).
ErrorPreview_unbounded(raw) == raw.text
ErrorPreview(raw) == Slice(raw.text, PreviewLen)

\* Lines 119-124: the except branch on the last attempt.
EngineFail(raw) ==
    IF raw.kind = "text"
    THEN RaisedHTTP(502, InvalidJsonDetail, ErrorPreview(raw))
    ELSE RaisedExc("TypeError")

\* Lines 130-133, reached only when the loop body never ran.
EngineFallthrough(l) ==
    RaisedHTTP(502, InvalidJsonDetail,
               Slice(IF l.kind = "text" THEN l.text ELSE NoneStr, PreviewLen))

\* Line 115 stands before the try: an exception of chat_json is not
\* handled by the except branch of lines 119-129.
Propagates_caught(r) == FALSE
Propagates(r) == r.kind = "raise"

\* Line 115: the call handed to the gateway.
Call(sys, usr) == [system |-> sys, user |-> usr]

\* Lines 125-129 reassign user only: system is the argument on every
\* attempt.
SystemOnRetry_corrected(sys) == <<PREAMBLE>> \o sys
SystemOnRetry(sys) == sys

(***************************************************************************)
(* Responses.  FastAPI turns an HTTPException into its status and detail   *)
(* and any other exception into 500.                                       *)
(***************************************************************************)
NoResp ==
    [kind |-> "none", status |-> 0, exc |-> "", detail |-> "",
     preview |-> NoText, from |-> 0, extraction |-> JLit("null"),
     rendered |-> JLit("null"), used |-> 0, remaining |-> 0, limit |-> 0]

ErrorResp(o, t) ==
    [NoResp EXCEPT !.kind = "error",
                   !.status = IF o.exc = "HTTPException" THEN o.status ELSE 500,
                   !.exc = o.exc, !.detail = o.detail, !.preview = o.preview,
                   !.from = t]

(***************************************************************************)
(* asyncio.gather of the coroutines: the outer future.  The done-callback *)
(* of each child counts it; the first exception is set on the outer        *)
(* future; when all children are done the results are read from the        *)
(* children in the order they were passed to gather.                       *)
(***************************************************************************)
NoGather == [state |-> "none", n |-> 0, results |-> <<>>, exc |-> NoOut, from |-> 0]
PendingGather(n) == [NoGather EXCEPT !.state = "pending", !.n = n]

\* results = [child.result() for child in children]
GatherResults_byCompletion(n, outs, fin) == [i \in 1..n |-> outs[fin[i]].val]
GatherResults(n, outs, fin) == [i \in 1..n |-> outs[i].val]

\* _done_callback: "if outer is None or outer.done()": the outer future
\* already holds an exception or its results, and the child's outcome is
\* only retrieved.
OuterDone_overwritten(g) == g.state = "result"
OuterDone(g) == g.state # "pending"

\* _done_callback: "if nfinished == nfuts".
AllDone_early(k, n) == k >= n - 1
AllDone(k, n) == k = n

\* gather(..., return_exceptions=False): when a child raises, its exception
\* is set on the outer future and the other children are left as they are;
\* lines 259-265 cancel nothing either.
Cancelled_onFailure(g, t) == g.state = "exception" /\ t <= g.n
Cancelled(g, t) == FALSE

\* The done-callback of child t, run when the coroutine has returned or
\* raised; finished holds every child that is done, in the order they
\* became done.
GatherCallback(t) ==
    IF gather.state # "none" /\ t <= gather.n /\ pc'[t] \in {"returned", "raised"}
    THEN /\ finished' = Append(finished, t)
         /\ gather' =
              IF OuterDone(gather) THEN gather
              ELSE IF pc'[t] = "raised"
              THEN [gather EXCEPT !.state = "exception", !.exc = out'[t], !.from = t]
              ELSE IF AllDone(Len(finished) + 1, gather.n)
              THEN [gather EXCEPT !.state = "result",
                       !.results = GatherResults(gather.n, out', Append(finished, t))]
              ELSE gather
    ELSE UNCHANGED <<gather, finished>>

(***************************************************************************)
(* The coroutine runs from its start to its first await.                   *)
(***************************************************************************)
EngineBegin(t) ==
    /\ pc[t] = "ready"
    /\ ~Cancelled(gather, t)
    /\ IF LoopRuns(retries[t])
       THEN /\ attempt' = [attempt EXCEPT ![t] = 0]
            /\ sent' = [sent EXCEPT ![t] = Append(@, Call(system[t], user[t]))]
            /\ pc' = [pc EXCEPT ![t] = "awaiting"]
            /\ out' = out
       ELSE /\ pc' = [pc EXCEPT ![t] = "raised"]
            /\ out' = [out EXCEPT ![t] = EngineFallthrough(last[t])]
            /\ UNCHANGED <<attempt, sent>>
    /\ UNCHANGED <<retries, system, original, user, last, got>>
    /\ GatherCallback(t)
    /\ UNCHANGED <<endpoint, env, req, response, refineVars, normVars, toolVars>>

(***************************************************************************)
(* The awaited chat_json call produces reply r and the coroutine runs on   *)
(* to its next await, its return or its raise (lines 115-129).             *)
(***************************************************************************)
EngineResume(t, r) ==
    /\ pc[t] = "awaiting"
    /\ ~Cancelled(gather, t)
    /\ got' = [got EXCEPT ![t] = Append(@, r)]
    /\ IF Propagates(r)
       THEN \* the exception of chat_json leaves the coroutine at line 115
            /\ pc' = [pc EXCEPT ![t] = "raised"]
            /\ out' = [out EXCEPT ![t] = RaisedExc(r.exc)]
            /\ UNCHANGED <<attempt, user, last, sent>>
       ELSE /\ last' = [last EXCEPT ![t] = r]
            /\ LET parsed == JsonLoads(ParseTarget(r, last[t])) IN
               IF parsed.ok
               THEN /\ pc' = [pc EXCEPT ![t] = "returned"]
                    /\ out' = [out EXCEPT ![t] = Returned(parsed.val)]
                    /\ UNCHANGED <<attempt, user, sent>>
               ELSE IF BudgetSpent(attempt[t], retries[t])
               THEN /\ pc' = [pc EXCEPT ![t] = "raised"]
                    /\ out' = [out EXCEPT ![t] = EngineFail(r)]
                    /\ UNCHANGED <<attempt, user, sent>>
               ELSE /\ user' = [user EXCEPT ![t] = CorrectivePrompt(@)]
                    /\ attempt' = [attempt EXCEPT ![t] = @ + 1]
                    /\ sent' = [sent EXCEPT ![t] =
                                  Append(@, Call(SystemOnRetry(system[t]),
                                                 CorrectivePrompt(user[t])))]
                    /\ UNCHANGED <<pc, out>>
    /\ UNCHANGED <<retries, system, original>>
    /\ GatherCallback(t)
    /\ UNCHANGED <<endpoint, env, req, response, refineVars, normVars, toolVars>>

\* Lines 270-281: the key and the output (by position in the gather call)
\* it is read from.
Owned(k, i) == [key |-> k, owner |-> i]
MergePlan ==
    <<Owned(K_meta, 1), Owned(K_header, 1), Owned(K_table1, 1),
      Owned(K_table2, 2),
      Owned(K_table3, 3), Owned(K_table4, 3), Owned(K_table5, 3),
      Owned(K_table6, 4), Owned(K_table7, 4),
      Owned(K_table8, 5), Owned(K_table9, 5), Owned(K_table10, 5)>>

PlanKeys == {MergePlan[i].key : i \in DOMAIN MergePlan}
OwnerOf(k) == (CHOOSE i \in DOMAIN MergePlan : MergePlan[i].key = k)

\* Lines 282-288: the sum of the five assumptions_or_gaps values.
MergeGaps_reversed(outs) ==
    PyAdd(PyAdd(PyAdd(PyAdd(PyGet(outs[5], K_gaps, EmptyArr),
                            PyGet(outs[4], K_gaps, EmptyArr)),
                      PyGet(outs[3], K_gaps, EmptyArr)),
                PyGet(outs[2], K_gaps, EmptyArr)),
          PyGet(outs[1], K_gaps, EmptyArr))
MergeGaps(outs) ==
    PyAdd(PyAdd(PyAdd(PyAdd(PyGet(outs[1], K_gaps, EmptyArr),
                            PyGet(outs[2], K_gaps, EmptyArr)),
                      PyGet(outs[3], K_gaps, EmptyArr)),
                PyGet(outs[4], K_gaps, EmptyArr)),
          PyGet(outs[5], K_gaps, EmptyArr))

\* Lines 270-281: outN.get(key, {}) on the output that owns the key.
SectionOf_lastWriter(outs, k) ==
    LET has == {i \in 1..NTasksV2 : k \in DOMAIN outs[i].m} IN
    IF has = {} THEN EmptyObj
    ELSE outs[CHOOSE i \in has : \A j \in has : j <= i].m[k]
SectionOf(outs, k) == PyGet(outs[MergePlan[OwnerOf(k)].owner], k, EmptyObj)

\* Lines 269-289: all_tables, or the exception the expression raises (.get
\* on a value that is no dict is an AttributeError).
MergeV2(outs) ==
    IF \E i \in 1..NTasksV2 : outs[i].t # "obj" THEN JErr("AttributeError")
    ELSE IF MergeGaps(outs).t = "err" THEN MergeGaps(outs)
    ELSE JObj([k \in PlanKeys \cup {K_gaps} |->
                 IF k = K_gaps THEN MergeGaps(outs) ELSE SectionOf(outs, k)])

\* build_workbook_v2: the sections it dereferences must be dicts (a falsy
\* table, header or gaps value is replaced or skipped); the cell contents
\* below that level are not modelled.
RenderErrorV2(doc) ==
    IF doc.t # "obj" THEN "AttributeError"
    ELSE IF \E k \in {K_meta, K_cover, K_quantity} :
               PyGet(doc, k, EmptyObj).t # "obj" THEN "AttributeError"
    ELSE IF \E k \in {K_header, K_table1, K_table2, K_table3} :
               Truthy(PyGet(doc, k, EmptyObj)) /\ PyGet(doc, k, EmptyObj).t # "obj"
         THEN "AttributeError"
    ELSE IF /\ Truthy(PyGet(doc, K_gaps, EmptyArr))
            /\ PyGet(doc, K_gaps, EmptyArr).t \notin {"arr", "str", "obj"}
         THEN "TypeError"
    ELSE ""

OkResp(doc, rendered) ==
    [NoResp EXCEPT !.kind = "ok", !.status = 200, !.extraction = doc,
                   !.rendered = rendered]

\* Lines 269-299: merge, render, respond.
RespondV2(outs) ==
    LET doc == MergeV2(outs) IN
    IF doc.t = "err" THEN ErrorResp(RaisedExc(doc.exc), 0)
    ELSE IF RenderErrorV2(doc) # "" THEN ErrorResp(RaisedExc(RenderErrorV2(doc)), 0)
    ELSE OkResp(doc, doc)

\* Lines 211-217: build_workbook(out1, out2, out3) and the file response.
RespondV1(outs) == OkResp(JLit("null"), JArr(outs))

(***************************************************************************)
(* The prompts of the tasks (the templates themselves are opaque).         *)
(***************************************************************************)
PromptName == <<"p1", "p2", "p3", "p4", "p5">>
TaskSystem(t) == <<PromptName[t], "system">>
TaskUser(e, t) ==
    IF e = "v2" THEN <<PromptName[t], "user", "\n", "full_context">>
    ELSE <<PromptName[t], "user", "\n\nDOCUMENT CONTEXT:\n", "ctx", PromptName[t]>>

NTasks_allFive(e) == NTasksV2
NTasks(e) == IF e = "v2" THEN NTasksV2 ELSE NTasksV1

(***************************************************************************)
(* The handler up to "await asyncio.gather(...)": _cfg() or HTTP 500, then *)
(* one coroutine per prompt, each with retries = 1.                        *)
(***************************************************************************)
ConfigError ==
    [NoResp EXCEPT !.kind = "error", !.status = 500, !.exc = "HTTPException",
                   !.detail = "Missing OPENAI_API_KEY, OPENAI_BASE_URL, or OPENAI_MODEL in environment/.env"]

StartGenerate ==
    /\ req = "idle"
    /\ endpoint \in {"v1", "v2"}
    /\ IF ~CfgPresent(env)
       THEN /\ req' = "responded"
            /\ response' = ConfigError
            /\ UNCHANGED <<engineVars, gather>>
       ELSE /\ req' = "gathering"
            /\ gather' = PendingGather(NTasks(endpoint))
            /\ pc' = [t \in TaskIds |-> IF t <= NTasks(endpoint) THEN "ready" ELSE "none"]
            /\ retries' = [t \in TaskIds |-> DefaultRetries]
            /\ system' = [t \in TaskIds |-> TaskSystem(t)]
            /\ original' = [t \in TaskIds |-> TaskUser(endpoint, t)]
            /\ user' = [t \in TaskIds |-> TaskUser(endpoint, t)]
            /\ UNCHANGED <<attempt, last, out, sent, got, response>>
    /\ UNCHANGED <<endpoint, env, finished, refineVars, normVars, toolVars>>

\* Lines 204 and 259: the await ends when the future of gather has its
\* results or an exception.
GatherDone_resultOnly(g) == g.state = "result"
GatherDone(g) == g.state \in {"result", "exception"}

(***************************************************************************)
(* The handler after the await: the exception of gather leaves the handler *)
(* or the outputs are merged and rendered.                                 *)
(***************************************************************************)
HandlerResume ==
    /\ req = "gathering"
    /\ GatherDone(gather)
    /\ req' = "responded"
    /\ response' =
         IF gather.state = "exception" THEN ErrorResp(gather.exc, gather.from)
         ELSE IF endpoint = "v2" THEN RespondV2(gather.results)
         ELSE RespondV1(gather.results)
    /\ UNCHANGED <<engineVars, endpoint, env, gather, finished, refineVars, normVars, toolVars>>

(***************************************************************************)
(* refine_extraction.                                                      *)
(***************************************************************************)
Turn(role, content) == [role |-> role, content |-> content]

\* Line 310: sum(1 for m in req.conversation_history if m.role == "user")
IsUserTurn_anyCase(m) == m.role \in {"user", "USER", "User"}
IsUserTurn(m) == m.role = "user"

RECURSIVE UserTurns(_)
UserTurns(h) ==
    IF h = <<>> THEN 0
    ELSE (IF IsUserTurn(Head(h)) THEN 1 ELSE 0) + UserTurns(Tail(h))

\* Line 310 counts the turns of the request's own conversation_history;
\* the module keeps no counter of its own (others: the other requests the
\* process has taken up).
CountedTurns_processWide(h, others) == UserTurns(h) + others
CountedTurns(h, others) == UserTurns(h)

\* Line 311
LimitReached_offByOne(n) == n > MAX_REFINEMENTS
LimitReached(n) == n >= MAX_REFINEMENTS

\* Lines 312-315
LimitDetail == "Maximum {MAX_REFINEMENTS} refinements reached. Please start a new session."
LimitError ==
    [NoResp EXCEPT !.kind = "error", !.status = 400, !.exc = "HTTPException",
                   !.detail = LimitDetail, !.limit = MAX_REFINEMENTS]

\* Lines 357-358
RefinementsUsed(n) == n + 1
RefinementsRemaining_stale(n) == MAX_REFINEMENTS - n
RefinementsRemaining(n) == MAX_REFINEMENTS - (n + 1)

\* m.role.upper()
Upper(role) ==
    CASE role = "user" -> "USER"
      [] role = "assistant" -> "ASSISTANT"
      [] OTHER -> role

\* Lines 338-341: the turns as "[ROLE]: content", joined by a blank line,
\* and the new message after a blank line.
RECURSIVE HistoryText(_)
HistoryText(h) ==
    IF h = <<>> THEN <<>>
    ELSE <<"[", Upper(Head(h).role), "]: ", Head(h).content>>
           \o (IF Tail(h) = <<>> THEN <<>> ELSE <<"\n\n">> \o HistoryText(Tail(h)))

FlatUser_messageFirst(h, msg) == <<"[USER]: ", msg, "\n\n">> \o HistoryText(h)
FlatUser(h, msg) == HistoryText(h) \o <<"\n\n", "[USER]: ", msg>>

\* Lines 324-335
RefineSystem == <<"refine.system", "current_extraction", "document_context[:15000]">>

\* Lines 352-359
RefineOk(updated, n) ==
    [OkResp(updated, updated) EXCEPT !.used = RefinementsUsed(n),
                                     !.remaining = RefinementsRemaining(n)]

\* Line 345: updated is the parsed reply; req.current_extraction (cur) is
\* read for the system prompt only (line 331).
Updated_patched(parsed, cur) ==
    IF parsed.t = "obj" /\ cur.t = "obj"
    THEN JObj([k \in DOMAIN cur.m \cup DOMAIN parsed.m |->
                 IF k \in DOMAIN parsed.m THEN parsed.m[k] ELSE cur.m[k]])
    ELSE parsed
Updated(parsed, cur) == parsed

\* Lines 343-359: what the handler does with the reply of its one call.
\* Only json.JSONDecodeError is caught: the TypeError of json.loads(None)
\* and an exception of chat_json leave the handler (HTTP 500).
RefineOutcome(r, n) ==
    IF r.kind = "raise" THEN ErrorResp(RaisedExc(r.exc), 0)
    ELSE IF r.kind # "text" THEN ErrorResp(RaisedExc("TypeError"), 0)
    ELSE IF ~JsonLoads(r).ok
         THEN ErrorResp(RaisedHTTP(502, "Model returned invalid JSON during refinement.",
                                   NoText), 0)
    ELSE LET updated == Updated(JsonLoads(r).val, current) IN
         IF RenderErrorV2(updated) # ""
         THEN ErrorResp(RaisedExc(RenderErrorV2(updated)), 0)
         ELSE RefineOk(updated, n)

\* The client keeps the message it sent and, on success, the answer and
\* the new extraction.
ClientRecord(msg, resp) ==
    /\ history' = history \o <<Turn("user", msg)>>
                    \o (IF resp.kind = "ok" THEN <<Turn("assistant", "done")>> ELSE <<>>)
    /\ current' = IF resp.kind = "ok" THEN resp.extraction ELSE current
    /\ succeeded' = succeeded + (IF resp.kind = "ok" THEN 1 ELSE 0)

Messages == {"fix"}

\* The generate request the process has taken up, if any.
OtherRequests == IF req = "idle" THEN 0 ELSE 1

\* Lines 305-343: the handler up to its await, or to its error response.
RefineStart(msg) ==
    /\ rpc = "idle"
    /\ ncalls < MaxCalls
    /\ ncalls' = ncalls + 1
    /\ rHist' = history
    /\ rMsg' = msg
    /\ rTurns' = CountedTurns(history, OtherRequests)
    /\ rGot' = <<>>
    /\ IF LimitReached(CountedTurns(history, OtherRequests))
       THEN /\ rResp' = LimitError
            /\ rSent' = <<>>
            /\ ClientRecord(msg, LimitError)
            /\ rpc' = "idle"
       ELSE IF ~CfgPresent(env)
       THEN /\ rResp' = ConfigError
            /\ rSent' = <<>>
            /\ ClientRecord(msg, ConfigError)
            /\ rpc' = "idle"
       ELSE /\ rSent' = <<Call(RefineSystem, FlatUser(history, msg))>>
            /\ rpc' = "awaiting"
            /\ UNCHANGED <<rResp, history, current, succeeded>>
    /\ UNCHANGED <<engineVars, requestVars, normVars, toolVars>>

\* Lines 343-359: the reply arrives, the handler answers, the client
\* records the turn.
RefineResume(r) ==
    /\ rpc = "awaiting"
    /\ rGot' = Append(rGot, r)
    /\ rResp' = RefineOutcome(r, rTurns)
    /\ ClientRecord(rMsg, RefineOutcome(r, rTurns))
    /\ rpc' = "idle"
    /\ UNCHANGED <<ncalls, rHist, rMsg, rTurns, rSent, engineVars, requestVars,
                   normVars, toolVars>>

(***************************************************************************)
(* Initial states.                                                         *)
(***************************************************************************)
SYS == <<"system">>
USR == <<"user">>

IdleTasks(S) ==
    /\ pc = [t \in TaskIds |-> IF t \in S THEN "ready" ELSE "none"]
    /\ attempt = [t \in TaskIds |-> 0]
    /\ last = [t \in TaskIds |-> NoReply]
    /\ out = [t \in TaskIds |-> NoOut]
    /\ sent = [t \in TaskIds |-> <<>>]
    /\ got = [t \in TaskIds |-> <<>>]

IdleRequest ==
    /\ req = "idle"
    /\ gather = NoGather
    /\ finished = <<>>
    /\ response = NoResp

IdleSession ==
    /\ current = ParseText(T_document).val
    /\ ncalls = 0
    /\ succeeded = 0
    /\ rpc = "idle"
    /\ rHist = <<>>
    /\ rMsg = ""
    /\ rTurns = 0
    /\ rSent = <<>>
    /\ rGot = <<>>
    /\ rResp = NoResp

NoParts == [fenced |-> FALSE, tag |-> <<>>, lead |-> <<>>, body |-> <<>>, trail |-> <<>>]

IdleNormalizer ==
    /\ nParts = NoParts
    /\ nTexts = <<>>
    /\ nChecked = <<>>

NoCfg == [api_key |-> <<>>, base_url |-> <<>>, model |-> <<>>]
NoRequest == [url |-> <<>>, authorization |-> <<>>, model |-> <<>>, messages |-> <<>>]

IdleGateway ==
    /\ gwCfg = NoCfg
    /\ gwSent = NoRequest
    /\ gwHttp = NoHttp
    /\ gwOut = NoOut

IdleFilter ==
    /\ fDocs = <<>>
    /\ fKeywords = <<>>
    /\ fDisable = FALSE
    /\ fOut = <<>>
    /\ fContext = <<>>
    /\ fpc = "idle"

vars == <<engineVars, requestVars, refineVars, normVars, toolVars>>

(***************************************************************************)
(* SpecEngine: one direct call of _parse_json_or_retry_async (task 1) with *)
(* any retries argument, against every sequence of gateway replies.        *)
(***************************************************************************)
InitEngine ==
    /\ IdleTasks({1})
    /\ \E r \in -1..MaxRetries : retries = [t \in TaskIds |-> r]
    /\ system = [t \in TaskIds |-> SYS]
    /\ original = [t \in TaskIds |-> USR]
    /\ user = original
    /\ IdleRequest
    /\ endpoint = "none"
    /\ env = GoodEnv
    /\ IdleSession
    /\ IdleNormalizer
    /\ IdleGateway
    /\ IdleFilter
    /\ history = <<>>

NextEngine ==
    \/ EngineBegin(1)
    \/ \E r \in EngineReplies : EngineResume(1, r)

SpecEngine == InitEngine /\ [][NextEngine]_vars

(***************************************************************************)
(* Spec: one generate request on either route, its tasks interleaved in    *)
(* every order, against every choice of replies.                           *)
(***************************************************************************)
Init ==
    /\ IdleTasks({})
    /\ retries = [t \in TaskIds |-> DefaultRetries]
    /\ system = [t \in TaskIds |-> SYS]
    /\ original = [t \in TaskIds |-> USR]
    /\ user = original
    /\ IdleRequest
    /\ endpoint \in {"v1", "v2"}
    /\ env \in Envs
    /\ IdleSession
    /\ IdleNormalizer
    /\ IdleGateway
    /\ IdleFilter
    /\ history = <<>>

TaskBegin == \E t \in TaskIds : EngineBegin(t)
TaskResume == \E t \in TaskIds : \E r \in FanoutReplies(t) : EngineResume(t, r)

Next ==
    \/ StartGenerate
    \/ TaskBegin
    \/ TaskResume
    \/ HandlerResume

Spec == Init /\ [][Next]_vars

(***************************************************************************)
(* SpecRefine: a session of refine_extraction requests, one at a time,     *)
(* starting from any conversation of at most MaxHistory turns.             *)
(***************************************************************************)
Roles == {"user", "assistant", "USER"}
RoleContent(role) == IF role = "assistant" THEN "done" ELSE "fix"

Histories ==
    UNION {[1..n -> {Turn(role, RoleContent(role)) : role \in Roles}] : n \in 0..MaxHistory}

RefineReplies ==
    {ReplyText(T_update), ReplyText(T_prose), ReplyText(T_array), ReplyNull,
     ReplyRaise("HTTPStatusError")}

InitRefine ==
    /\ IdleTasks({})
    /\ retries = [t \in TaskIds |-> DefaultRetries]
    /\ system = [t \in TaskIds |-> SYS]
    /\ original = [t \in TaskIds |-> USR]
    /\ user = original
    /\ IdleRequest
    /\ endpoint = "none"
    /\ env \in Envs
    /\ IdleSession
    /\ IdleNormalizer
    /\ IdleGateway
    /\ IdleFilter
    /\ history \in Histories

NextRefine ==
    \/ \E msg \in Messages : RefineStart(msg)
    \/ \E r \in RefineReplies : RefineResume(r)

SpecRefine == InitRefine /\ [][NextRefine]_vars

(***************************************************************************)
(* SpecService: the service with any environment, answering one generate   *)
(* request (either route) or one session of refine requests.               *)
(***************************************************************************)
InitService ==
    /\ IdleTasks({})
    /\ retries = [t \in TaskIds |-> DefaultRetries]
    /\ system = [t \in TaskIds |-> SYS]
    /\ original = [t \in TaskIds |-> USR]
    /\ user = original
    /\ IdleRequest
    /\ IdleSession
    /\ IdleNormalizer
    /\ IdleGateway
    /\ IdleFilter
    /\ env \in Envs
    /\ \/ endpoint \in {"v1", "v2"} /\ history = <<>>
       \/ endpoint = "refine" /\ history \in Histories

RefineBegin == endpoint = "refine" /\ \E msg \in Messages : RefineStart(msg)
RefineReply == endpoint = "refine" /\ \E r \in RefineReplies : RefineResume(r)

NextService ==
    \/ StartGenerate
    \/ TaskBegin
    \/ TaskResume
    \/ HandlerResume
    \/ RefineBegin
    \/ RefineReply

SpecService == InitService /\ [][NextService]_vars

(***************************************************************************)
(* SpecConcurrent: the process serves one generate request and one refine  *)
(* request at the same time, their steps interleaved in every order.  On   *)
(* route v1 every task is answered with a document or with prose; on route *)
(* v2 task 1 is, and tasks 2 to 5 are answered with a document.            *)
(***************************************************************************)
NoModelEnv == [GoodEnv EXCEPT !["OPENAI_MODEL"] = Unset]

\* Two prior user turns, and three.
TwoTurns == <<Turn("user", "fix"), Turn("assistant", "done"), Turn("user", "fix")>>
ThreeTurns == <<Turn("user", "fix"), Turn("user", "fix"), Turn("user", "fix")>>

FewReplies(e, t) ==
    IF e = "v1" \/ t = 1 THEN {ReplyText(T_good(t)), ReplyText(T_prose)}
    ELSE {ReplyText(T_good(t))}

FewTaskResume ==
    \E t \in TaskIds : \E r \in FewReplies(endpoint, t) : EngineResume(t, r)

InitConcurrent ==
    /\ IdleTasks({})
    /\ retries = [t \in TaskIds |-> DefaultRetries]
    /\ system = [t \in TaskIds |-> SYS]
    /\ original = [t \in TaskIds |-> USR]
    /\ user = original
    /\ IdleRequest
    /\ IdleSession
    /\ IdleNormalizer
    /\ IdleGateway
    /\ IdleFilter
    /\ endpoint \in {"v1", "v2"}
    /\ env \in {GoodEnv, NoModelEnv}
    /\ history \in {<<>>, TwoTurns, ThreeTurns}

ConcurrentRefineBegin == ncalls = 0 /\ \E msg \in Messages : RefineStart(msg)
ConcurrentRefineReply == \E r \in RefineReplies : RefineResume(r)

NextConcurrent ==
    \/ StartGenerate
    \/ TaskBegin
    \/ FewTaskResume
    \/ HandlerResume
    \/ ConcurrentRefineBegin
    \/ ConcurrentRefineReply

SpecConcurrent == InitConcurrent /\ [][NextConcurrent]_vars

(***************************************************************************)
(* SpecFair: the service answering one generate request (either route) or  *)
(* one session of refine requests, where the event loop takes a step       *)
(* whenever a coroutine can run or a gateway call can complete (httpx      *)
(* returns or raises, at the latest on its timeout).  The client is free   *)
(* never to send a refine request.                                         *)
(***************************************************************************)
InitFair ==
    /\ IdleTasks({})
    /\ retries = [t \in TaskIds |-> DefaultRetries]
    /\ system = [t \in TaskIds |-> SYS]
    /\ original = [t \in TaskIds |-> USR]
    /\ user = original
    /\ IdleRequest
    /\ IdleSession
    /\ IdleNormalizer
    /\ IdleGateway
    /\ IdleFilter
    /\ env \in {GoodEnv, NoModelEnv}
    /\ \/ endpoint \in {"v1", "v2"} /\ history = <<>>
       \/ endpoint = "refine" /\ history \in Histories

ServerStep ==
    \/ StartGenerate
    \/ TaskBegin
    \/ FewTaskResume
    \/ HandlerResume
    \/ RefineReply

NextFair ==
    \/ ServerStep
    \/ RefineBegin

SpecFair == InitFair /\ [][NextFair]_vars /\ WF_vars(ServerStep)

(***************************************************************************)
(* SpecNormalize: a text is normalized, its normalization is normalized    *)
(* again, and the truncation detector is applied to any of the three.      *)
(* The texts are JSON documents, repairable documents and chatter, bare    *)
(* or wrapped in a fence (with or without the json tag, with or without    *)
(* whitespace inside the fence), and every string of brackets of at most   *)
(* MaxBrackets characters.                                                 *)
(***************************************************************************)
\* {"a": 1}
B_object ==
    <<"{", QUOTE, "a", QUOTE, ":", " ", "1", "}">>
\* [1]
B_array ==
    <<"[", "1", "]">>
\* {"a": 1,"b": 2}
B_fields ==
    <<"{", QUOTE, "a", QUOTE, ":", " ", "1", ",", QUOTE, "b", QUOTE, ":",
      " ", "2", "}">>
\* {"a": 181,000}
B_thousands ==
    <<"{", QUOTE, "a", QUOTE, ":", " ", "1", "8", "1", ",", "0", "0", "0",
      "}">>
\* [1,200]
B_pair ==
    <<"[", "1", ",", "2", "0", "0", "]">>
\* [1,234,567]
B_million ==
    <<"[", "1", ",", "2", "3", "4", ",", "5", "6", "7", "]">>
\* [1,]
B_trailing ==
    <<"[", "1", ",", "]">>
\* {"a": None}
B_literal ==
    <<"{", QUOTE, "a", QUOTE, ":", " ", "N", "o", "n", "e", "}">>
\* {"a": 1, "b": [1,2
B_truncated ==
    <<"{", QUOTE, "a", QUOTE, ":", " ", "1", ",", " ", QUOTE, "b", QUOTE,
      ":", " ", "[", "1", ",", "2">>
\* ["181,000 units"]
B_prose ==
    <<"[", QUOTE, "1", "8", "1", ",", "0", "0", "0", " ", "u", "n", "i",
      "t", "s", QUOTE, "]">>
\* Sure! {"a": 1} ok
B_chatter ==
    <<"S", "u", "r", "e", "!", " ", "{", QUOTE, "a", QUOTE, ":", " ", "1",
      "}", " ", "o", "k">>

Bodies ==
    {B_object, B_array, B_fields, B_thousands, B_pair, B_million, B_trailing,
     B_literal, B_truncated, B_prose, B_chatter}
BracketTexts == UNION {[1..n -> Opens \cup Closes] : n \in 0..MaxBrackets}
FenceTags == {<<>>, JsonTag}
FencePadding == {<<>>, <<"\n">>, <<" ">>}

Bare(b) == [NoParts EXCEPT !.body = b]
NormInputs ==
    {[fenced |-> TRUE, tag |-> t, lead |-> l, body |-> b, trail |-> r] :
        t \in FenceTags, l \in FencePadding, b \in Bodies, r \in FencePadding}
      \cup {Bare(b) : b \in Bodies \cup BracketTexts}

Compose(p) ==
    IF p.fenced THEN FENCE \o p.tag \o p.lead \o p.body \o p.trail \o FENCE
    ELSE p.body

InitNormalize ==
    /\ IdleTasks({})
    /\ retries = [t \in TaskIds |-> DefaultRetries]
    /\ system = [t \in TaskIds |-> SYS]
    /\ original = [t \in TaskIds |-> USR]
    /\ user = original
    /\ IdleRequest
    /\ endpoint = "none"
    /\ env = GoodEnv
    /\ IdleSession
    /\ history = <<>>
    /\ nParts \in NormInputs
    /\ nTexts = <<Compose(nParts)>>
    /\ nChecked = <<>>
    /\ IdleGateway
    /\ IdleFilter

\* normalized = normalize(raw)
NormalizeText ==
    /\ Len(nTexts) \in 1..2
    /\ nTexts' = Append(nTexts, Normalize(nTexts[Len(nTexts)]))
    /\ UNCHANGED <<nParts, nChecked, engineVars, requestVars, refineVars, toolVars>>

\* is_truncated(text), on the latest text
CheckTruncation ==
    /\ nTexts # <<>>
    /\ \A i \in DOMAIN nChecked : nChecked[i].text # nTexts[Len(nTexts)]
    /\ nChecked' = Append(nChecked,
                          [text |-> nTexts[Len(nTexts)],
                           truncated |-> IsTruncated(Text(nTexts[Len(nTexts)]))])
    /\ UNCHANGED <<nParts, nTexts, engineVars, requestVars, refineVars, toolVars>>

NextNormalize ==
    \/ NormalizeText
    \/ CheckTruncation

SpecNormalize == InitNormalize /\ [][NextNormalize]_vars

(***************************************************************************)
(* One chat_json call against an OpenAI-compatible endpoint, with every    *)
(* kind of answer the endpoint and the network can give.                   *)
(***************************************************************************)
BaseUrls == {<<"https://h/v1">>, <<"https://h/v1", "/">>, <<"https://h/v1", "/", "/">>}

Obj1(k, v) == JObj(MapPut(EmptyMap, k, v))

\* The values a field of the body can hold in place of the expected one.
Hello == JStr(<<"{", "}">>)
Misfits == {JLit("null"), JStr(<<"x">>), JArr(<<>>), JObj(EmptyMap), JNum(1)}
ContentValues == {Hello, JStr(<<>>), JLit("null"), JNum(1)}
MessageValues == {Obj1(K_content, c) : c \in ContentValues} \cup Misfits
ChoiceValues == {Obj1(K_message, m) : m \in MessageValues} \cup Misfits
ChoicesValues ==
    {JArr(<<c>>) : c \in ChoiceValues}
        \cup {JArr(<<Obj1(K_message, Obj1(K_content, Hello)), JLit("null")>>)}
        \cup Misfits \cup {JStr(<<>>)}
ResponseBodies == {Obj1(K_choices, x) : x \in ChoicesValues} \cup Misfits

HttpOutcomes ==
    {HttpRaises("post", e) : e \in {"ConnectError", "ReadTimeout"}}
        \cup {HttpRaises("status", "HTTPStatusError")}
        \cup {HttpRaises("json", "JSONDecodeError")}
        \cup {HttpBody(d) : d \in ResponseBodies}

\* No request is being served while the call is looked at on its own.
IdleServer ==
    /\ IdleTasks({})
    /\ retries = [t \in TaskIds |-> DefaultRetries]
    /\ system = [t \in TaskIds |-> SYS]
    /\ original = [t \in TaskIds |-> USR]
    /\ user = original
    /\ IdleRequest
    /\ endpoint = "none"
    /\ env = GoodEnv
    /\ IdleSession
    /\ history = <<>>
    /\ IdleNormalizer

InitGateway ==
    /\ IdleServer
    /\ IdleFilter
    /\ gwCfg \in {[api_key |-> <<"sk">>, base_url |-> b, model |-> <<"m">>] : b \in BaseUrls}
    /\ gwSent = NoRequest
    /\ gwHttp = NoHttp
    /\ gwOut = NoOut

\* Lines 31-49: chat_json(system, user) builds the request and posts it.
ChatJsonPost(sys, usr) ==
    /\ gwSent = NoRequest
    /\ gwSent' = Payload(gwCfg, sys, usr)
    /\ UNCHANGED <<gwCfg, gwHttp, gwOut, filterVars,
                   engineVars, requestVars, refineVars, normVars>>

\* Lines 49-57: the exchange ends with h and chat_json returns or raises.
ChatJsonFinish(h) ==
    /\ gwSent # NoRequest
    /\ gwHttp = NoHttp
    /\ gwHttp' = h
    /\ gwOut' = ChatJsonOutcome(h)
    /\ UNCHANGED <<gwCfg, gwSent, filterVars,
                   engineVars, requestVars, refineVars, normVars>>

GatewayPost ==
    \E sys \in {SYS, <<>>} : \E usr \in {USR, CorrectivePrompt(USR)} : ChatJsonPost(sys, usr)
GatewayFinish == \E h \in HttpOutcomes : ChatJsonFinish(h)

NextGateway ==
    \/ GatewayPost
    \/ GatewayFinish

SpecGateway == InitGateway /\ [][NextGateway]_vars

(***************************************************************************)
(* Claims about the parse-and-retry engine.                                *)
(***************************************************************************)
Calls(t) == Len(sent[t])
Parses(r) == JsonLoads(r).ok
UnparsedText(r) == r.kind = "text" /\ ~ParseText(r.text).ok

\* C1: a call with retries = r >= 0 makes at most r + 1 gateway calls (at
\* most 2 with the default r = 1), and once a reply has parsed no further
\* call is made: the reply that parsed is the last one and the number of
\* calls equals its position.
C1_CallsBounded ==
    \A t \in TaskIds :
        /\ retries[t] >= 0 => Calls(t) <= retries[t] + 1
        /\ retries[t] = DefaultRetries => Calls(t) <= 2
        /\ \A i \in 1..Len(got[t]) :
              Parses(got[t][i]) => i = Len(got[t]) /\ Calls(t) = i

C1_Witness ==
    /\ retries[1] = DefaultRetries
    /\ Calls(1) = 2
    /\ Len(got[1]) = 2
    /\ Parses(got[1][2])
    /\ pc[1] = "returned"

\* C2: a truncated reply ends the call at once with a TruncationError: no
\* gateway call follows it, and the error is not the invalid-JSON error.
C2_TruncationIsFatal ==
    \A t \in TaskIds : \A i \in 1..Len(got[t]) :
        (got[t][i].kind = "text" /\ IsTruncated(got[t][i].text)) =>
            /\ Calls(t) = i
            /\ pc[t] = "raised"
            /\ out[t].exc = "TruncationError"
            /\ out[t].detail # InvalidJsonDetail

\* C3: when each of the retries + 1 attempts returned text that does not
\* parse, the call has raised HTTP 502 (it has not returned), and the
\* error carries the first 2000 characters, at most, of the last reply.
C3_ExhaustedRaises502 ==
    \A t \in TaskIds :
        ( /\ retries[t] >= 0
          /\ Len(got[t]) = retries[t] + 1
          /\ \A i \in 1..Len(got[t]) : UnparsedText(got[t][i]) )
        => /\ pc[t] = "raised"
           /\ out[t].exc = "HTTPException"
           /\ out[t].status = 502
           /\ out[t].preview = Slice(got[t][Len(got[t])].text, PreviewLen)
           /\ TextLen(out[t].preview) <= PreviewLen

C3_Witness ==
    /\ retries[1] = 1
    /\ got[1] = <<ReplyText(T_prose), ReplyText(T_long)>>
    /\ pc[1] = "raised"
    /\ TextLen(out[1].preview) = PreviewLen
    /\ TextLen(T_long) > PreviewLen

\* C4: when the first reply is not valid JSON and the reply to the
\* corrective retry is, the call returns the value parsed from the second
\* reply and nothing else (no error field is set).
C4_RetryRecovers ==
    \A t \in TaskIds :
        ( /\ Len(got[t]) >= 2
          /\ got[t][1].kind # "raise" /\ ~Parses(got[t][1])
          /\ Parses(got[t][2]) )
        => /\ pc[t] = "returned"
           /\ out[t] = Returned(JsonLoads(got[t][2]).val)

C4_Witness ==
    /\ got[1] = <<ReplyText(T_prose), ReplyText(T_object)>>
    /\ pc[1] = "returned"
    /\ out[1].val = JObj(MapPut(EmptyMap, <<"a">>, JNum(1)))

\* C5: on every retry the user prompt handed to the gateway is one copy of
\* the corrective preamble followed by the original user prompt.
C5_OnePreamble ==
    \A t \in TaskIds : \A k \in 2..Len(sent[t]) :
        sent[t][k].user = <<PREAMBLE>> \o original[t]

(***************************************************************************)
(* Claims about refine_extraction.                                         *)
(***************************************************************************)
\* The entries of the request's conversation_history whose role is "user".
PriorUserTurns == Cardinality({i \in DOMAIN rHist : rHist[i].role = "user"})
Answered == ncalls > 0 /\ rpc = "idle"

\* C6: a refine request is answered with the limit error (HTTP 400, limit
\* 3) exactly when its conversation_history holds 3 or more entries with
\* role "user"; a rejected request has made no gateway call.
C6_LimitIffThreeUserTurns ==
    Answered =>
        /\ (rResp.status = 400) <=> (PriorUserTurns >= MAX_REFINEMENTS)
        /\ rResp.status = 400 =>
              /\ rResp.kind = "error"
              /\ rResp.detail = LimitDetail
              /\ rResp.limit = 3
              /\ rSent = <<>>
              /\ rGot = <<>>

C6_Witness ==
    /\ Answered
    /\ rResp.status = 400
    /\ PriorUserTurns = 3
    /\ Len(rHist) > 3
    /\ \E i \in DOMAIN rHist : rHist[i].role = "USER"

\* C7: a successful refine request with p prior user turns reports
\* refinements_used = p + 1 and refinements_remaining = 3 - (p + 1), so
\* used is 1..3, remaining is 0..2, they add up to 3, and p = 2 leaves 0.
C7_Counters ==
    (Answered /\ rResp.kind = "ok") =>
        /\ rResp.used = PriorUserTurns + 1
        /\ rResp.remaining = MAX_REFINEMENTS - (PriorUserTurns + 1)
        /\ rResp.used \in 1..3
        /\ rResp.remaining \in 0..2
        /\ rResp.used + rResp.remaining = 3
        /\ PriorUserTurns = 2 => rResp.remaining = 0

C7_Witness ==
    /\ Answered
    /\ rResp.kind = "ok"
    /\ PriorUserTurns = 2
    /\ rResp.used = 3
    /\ rResp.remaining = 0

\* C8: in a session whose client records every message it sent, at most 3
\* refine requests succeed, and once 3 have succeeded every further
\* request is answered with the limit error without reaching the gateway.
C8_AtMostThreeSuccesses ==
    /\ succeeded <= MAX_REFINEMENTS
    /\ succeeded = MAX_REFINEMENTS =>
          /\ rpc = "idle"
          /\ rResp.kind = "ok" \/ (rResp.status = 400 /\ rSent = <<>>)

C8_Witness ==
    /\ succeeded = MAX_REFINEMENTS
    /\ ncalls = 4
    /\ rpc = "idle"
    /\ rResp.status = 400

\* C9: a refine request whose first reply is not valid JSON sends one
\* corrective prompt and fails with 502 only after a second unparseable
\* reply, so a request answered 502 has made exactly 2 gateway calls.
C9_RefineRetriesOnce ==
    /\ (Answered /\ rResp.status = 502) => Len(rSent) = 2
    /\ (Len(rGot) >= 1 /\ UnparsedText(rGot[1])) => Len(rSent) = 2

\* The extraction a session starts from: it holds table1 and table2.
InitialDocument == ParseText(T_document).val

\* C21: a successful refine request answers with the parsed reply of the
\* model and nothing else, and hands the same value to the renderer: the
\* keys of the answer are the keys of the reply, so table2, which the
\* current extraction of the first successful request holds and the reply
\* omits, is absent from the answer.
C21_FullReplacement ==
    (Answered /\ rResp.kind = "ok") =>
        /\ Len(rGot) = 1
        /\ rResp.extraction = ParseText(rGot[1].text).val
        /\ rResp.rendered = rResp.extraction
        /\ DOMAIN rResp.extraction.m = DOMAIN ParseText(rGot[1].text).val.m
        /\ succeeded = 1 => K_table2 \notin DOMAIN rResp.extraction.m

C21_Witness ==
    /\ Answered
    /\ rResp.kind = "ok"
    /\ succeeded = 1
    /\ rGot = <<ReplyText(T_update)>>
    /\ K_table2 \in DOMAIN InitialDocument.m
    /\ DOMAIN rResp.extraction.m = {K_table1}
    /\ current = rResp.extraction

\* The elements of a prompt: what stands between its blank-line separators
\* (str.split on the separator).
RECURSIVE SplitOn(_, _, _)
SplitOn(p, sep, acc) ==
    IF p = <<>> THEN <<acc>>
    ELSE IF Head(p) = sep THEN <<acc>> \o SplitOn(Tail(p), sep, <<>>)
    ELSE SplitOn(Tail(p), sep, Append(acc, Head(p)))

Elements(p) == SplitOn(p, "\n\n", <<>>)

\* A history turn and the new message as the prompt shows them.
TurnLine(m) == <<"[", Upper(m.role), "]: ", m.content>>
MessageLine(msg) == <<"[USER]: ", msg>>
TurnLines(h) == [i \in DOMAIN h |-> TurnLine(h[i])]

\* C24 as stated: the user prompt of a refine request is the history turns
\* in their given order, one element each, none dropped, duplicated or
\* reordered, and the new message as the last element; with an empty
\* history the prompt is the new message alone.
C24_TranscriptThenMessage ==
    \A i \in DOMAIN rSent :
        /\ Elements(rSent[i].user) = TurnLines(rHist) \o <<MessageLine(rMsg)>>
        /\ rHist = <<>> => rSent[i].user = MessageLine(rMsg)

\* C24 as amended: the same for a history that is not empty; with an empty
\* history the prompt is the separator and then the new message, so that
\* an empty element stands before the new message.
C24_TranscriptThenMessageAfterSeparator ==
    \A i \in DOMAIN rSent :
        /\ rHist # <<>> =>
              Elements(rSent[i].user) = TurnLines(rHist) \o <<MessageLine(rMsg)>>
        /\ rHist = <<>> =>
              /\ rSent[i].user = <<"\n\n">> \o MessageLine(rMsg)
              /\ Elements(rSent[i].user) = <<<<>>, MessageLine(rMsg)>>

C24_Witness ==
    /\ rHist = <<Turn("user", "fix"), Turn("assistant", "done"), Turn("USER", "fix")>>
    /\ Len(rSent) = 1
    /\ rSent[1].user =
          <<"[", "USER", "]: ", "fix", "\n\n", "[", "ASSISTANT", "]: ", "done", "\n\n",
            "[", "USER", "]: ", "fix", "\n\n", "[USER]: ", "fix">>

(***************************************************************************)
(* Claims about the fan-out.                                               *)
(***************************************************************************)
\* What each task of the request returned, from the replies it was given:
\* the parse of its last reply.
LastParsed(t) == JsonLoads(got[t][Len(got[t])]).val
ReturnedByTask == [t \in 1..NTasks(endpoint) |-> LastParsed(t)]

\* C10: a successful generate request answers with a document that is a
\* function of the replies each task was given and of the declaration
\* order alone: whatever order the tasks finished in, every section key
\* holds the value returned by the task that owns it (route v1 hands the
\* three outputs to the renderer in declaration order).
C10_MergeByDeclaration ==
    (req = "responded" /\ response.kind = "ok") =>
        IF endpoint = "v2"
        THEN /\ response.extraction = MergeV2(ReturnedByTask)
             /\ \A i \in DOMAIN MergePlan :
                   response.extraction.m[MergePlan[i].key] =
                       PyGet(LastParsed(MergePlan[i].owner), MergePlan[i].key, EmptyObj)
        ELSE response.rendered = JArr(ReturnedByTask)

C10_Witness ==
    /\ req = "responded"
    /\ response.kind = "ok"
    /\ endpoint = "v2"
    /\ finished = <<5, 4, 3, 2, 1>>
    /\ response.extraction.m[K_table1] = JObj(MapPut(EmptyMap, <<"n">>, JNum(1)))
    /\ response.extraction.m[K_table8] = JObj(MapPut(EmptyMap, <<"n">>, JNum(5)))
\* The assumptions_or_gaps list task t returned, the empty list when its
\* output has none.
OwnGaps(t) ==
    IF K_gaps \in DOMAIN LastParsed(t).m THEN LastParsed(t).m[K_gaps].items ELSE <<>>

RECURSIVE GapsUpTo(_)
GapsUpTo(n) == IF n = 0 THEN <<>> ELSE GapsUpTo(n - 1) \o OwnGaps(n)

RECURSIVE GapsCountUpTo(_)
GapsCountUpTo(n) == IF n = 0 THEN 0 ELSE GapsCountUpTo(n - 1) + Len(OwnGaps(n))

\* C11: in a successful v2 response, assumptions_or_gaps is the lists of
\* tasks 1..5 one after the other in declaration order, whatever order the
\* tasks finished in: its length is the sum of their lengths (nothing is
\* dropped or deduplicated) and a task without the key adds nothing.
C11_GapsConcatenated ==
    (req = "responded" /\ response.kind = "ok" /\ endpoint = "v2") =>
        /\ response.extraction.m[K_gaps] = JArr(GapsUpTo(NTasksV2))
        /\ Len(response.extraction.m[K_gaps].items) = GapsCountUpTo(NTasksV2)

C11_Witness ==
    /\ req = "responded"
    /\ response.kind = "ok"
    /\ endpoint = "v2"
    /\ finished = <<3, 5, 2, 4, 1>>
    /\ OwnGaps(4) = <<>>
    /\ response.extraction.m[K_gaps].items =
          <<JStr(<<"g", "1">>), JStr(<<"g", "1">>), JStr(<<"g", "2">>),
            JStr(<<"g", "3">>), JStr(<<"g", "5">>)>>

\* The tasks the route declares: five on v2, three on v1.
Declared == IF endpoint = "v2" THEN 1..5 ELSE 1..3
NoValue == JLit("null")

\* C12: when a task of the fan-out has failed the request is answered with
\* an error that carries neither a merged document nor a spreadsheet, even
\* if every other task returned; a document or a spreadsheet exists only
\* when every declared task has returned, so merge and render never start
\* before that.
C12_AllOrNothing ==
    /\ (req = "responded" /\ \E t \in Declared : pc[t] = "raised") =>
          /\ response.kind = "error"
          /\ response.extraction = NoValue
          /\ response.rendered = NoValue
    /\ (response.kind = "ok" \/ response.extraction # NoValue
                              \/ response.rendered # NoValue) =>
          \A t \in Declared : pc[t] = "returned"

C12_Witness ==
    /\ req = "responded"
    /\ endpoint = "v2"
    /\ finished = <<1, 2, 3, 4, 5>>
    /\ \A t \in 1..4 : pc[t] = "returned"
    /\ pc[5] = "raised"
    /\ response.kind = "error"
    /\ response.status = 502
    /\ response.extraction = NoValue

\* The positions in finished of the tasks that failed, and the task that
\* failed first in time.
FailedAt == {i \in DOMAIN finished : pc[finished[i]] = "raised"}
FirstFailed == finished[CHOOSE i \in FailedAt : \A j \in FailedAt : i <= j]

\* C13: when tasks of the fan-out have failed, the caller is answered with
\* one error, the error of the task that failed first in time, whatever
\* the declaration order of the failing tasks; the answer does not change
\* when further tasks fail afterwards.
C13_AnswerIsFirstFailure ==
    (req = "responded" /\ FailedAt # {}) =>
        /\ response.kind = "error"
        /\ response.from = FirstFailed
        /\ response = ErrorResp(out[FirstFailed], FirstFailed)

C13_FirstFailureWins ==
    /\ []C13_AnswerIsFirstFailure
    /\ [][req = "responded" => response' = response]_vars

C13_Witness ==
    /\ req = "responded"
    /\ Cardinality(FailedAt) >= 2
    /\ FirstFailed = 4
    /\ pc[2] = "raised"
    /\ response.from = 4
    /\ got[4][Len(got[4])] = ReplyText(T_prose)

RECURSIVE CallsUpTo(_)
CallsUpTo(n) == IF n = 0 THEN 0 ELSE CallsUpTo(n - 1) + Calls(n)
TotalCalls == CallsUpTo(NTasksV2)

\* How many gateway calls of the request carry, uncorrected, the prompt
\* built for task t: one for every engine invocation running the task.
Invocations(t) ==
    Cardinality({<<u, k>> \in TaskIds \X (1..(MaxRetries + 2)) :
                   /\ k <= Len(sent[u])
                   /\ sent[u][k] = Call(TaskSystem(t), TaskUser(endpoint, t))})

\* C14: no task is ever run by two engine invocations, and in a successful
\* request every declared task was run by exactly one, with one or two
\* gateway calls: 5 to 10 calls in all on v2 and 3 to 6 on v1.
C14_OneInvocationPerTask ==
    /\ \A t \in TaskIds : Invocations(t) <= 1
    /\ (req = "responded" /\ response.kind = "ok") =>
          /\ \A t \in Declared : Invocations(t) = 1 /\ Calls(t) \in 1..2
          /\ \A t \in TaskIds \ Declared : Invocations(t) = 0 /\ Calls(t) = 0
          /\ endpoint = "v2" => TotalCalls \in 5..10
          /\ endpoint = "v1" => TotalCalls \in 3..6

C14_Witness ==
    /\ req = "responded"
    /\ response.kind = "ok"
    /\ endpoint = "v2"
    /\ TotalCalls = 10
    /\ \A t \in Declared : Invocations(t) = 1

\* The keys of the merged document and the keys each task owns.
DocumentKeys ==
    {K_meta, K_header, K_table1, K_table2, K_table3, K_table4, K_table5,
     K_table6, K_table7, K_table8, K_table9, K_table10, K_gaps}
OwnKeys(t) ==
    CASE t = 1 -> {K_meta, K_header, K_table1}
      [] t = 2 -> {K_table2}
      [] t = 3 -> {K_table3, K_table4, K_table5}
      [] t = 4 -> {K_table6, K_table7}
      [] t = 5 -> {K_table8, K_table9, K_table10}

\* {"n": t}
SectionValue(t) == JObj(MapPut(EmptyMap, <<"n">>, JNum(t)))

\* C28: the document of a successful v2 request has the 13 fixed keys and
\* no other; every section holds what the task that owns it returned for
\* it, the empty object when the owner returned nothing for it; so table1
\* returned by task 2 is not in the document, which holds the table1 of
\* task 1.
C28_KeysFromOwners ==
    (req = "responded" /\ response.kind = "ok" /\ endpoint = "v2") =>
        /\ DOMAIN response.extraction.m = DocumentKeys
        /\ \A t \in 1..NTasksV2 : \A k \in OwnKeys(t) :
              response.extraction.m[k] =
                  IF k \in DOMAIN LastParsed(t).m THEN LastParsed(t).m[k] ELSE EmptyObj
        /\ (K_table1 \in DOMAIN LastParsed(2).m /\ K_table1 \in DOMAIN LastParsed(1).m)
              => /\ response.extraction.m[K_table1] = LastParsed(1).m[K_table1]
                 /\ response.extraction.m[K_table1] # LastParsed(2).m[K_table1]

C28_Witness ==
    /\ req = "responded"
    /\ response.kind = "ok"
    /\ endpoint = "v2"
    /\ got[2] = <<ReplyText(T_stray(2))>>
    /\ LastParsed(2).m[K_table1] = SectionValue(2)
    /\ response.extraction.m[K_table1] = SectionValue(1)
    /\ response.extraction.m[K_table2] = SectionValue(2)
    /\ response.extraction.m[K_meta] = EmptyObj
    /\ Cardinality(DOMAIN response.extraction.m) = 13

\* The gateway calls of task t that have not been answered yet.
InFlight(t) == Len(sent[t]) - Len(got[t])

\* C30: a task has at most one gateway call in flight, and has one exactly
\* while it awaits; every call after its first was issued when the reply
\* to the call before it had arrived and had not parsed; every call of a
\* task carries the system prompt the task was given.
C30_AttemptsSequential ==
    \A t \in TaskIds :
        /\ InFlight(t) \in {0, 1}
        /\ InFlight(t) = 1 <=> pc[t] = "awaiting"
        /\ \A k \in 2..Len(sent[t]) :
              /\ Len(got[t]) >= k - 1
              /\ got[t][k - 1].kind # "raise"
              /\ ~Parses(got[t][k - 1])
        /\ \A k \in 1..Len(sent[t]) : sent[t][k].system = system[t]

\* Two tasks of one fan-out in flight at once, one of them on its retry.
C30_Witness ==
    /\ endpoint = "v2"
    /\ req = "gathering"
    /\ InFlight(1) = 1
    /\ InFlight(2) = 1
    /\ Len(sent[1]) = 2
    /\ got[1] = <<ReplyText(T_prose)>>
    /\ sent[1][2].system = TaskSystem(1)
    /\ sent[1][2].user = <<PREAMBLE>> \o TaskUser("v2", 1)

\* The request was answered with the error of a task of its fan-out.
Aborted == req = "responded" /\ response.kind = "error" /\ gather.state = "exception"

\* C29: once the failure of a task has been answered to the caller, every
\* sibling goes on as before: one that has not started can start, and one
\* that awaits its first reply can receive it and, if it does not parse,
\* issue its corrective retry, or return if it parses; none of this
\* changes the answer, which carries no document whatever the siblings
\* return.
C29_SiblingsKeepRunning ==
    Aborted =>
        /\ response.extraction = NoValue
        /\ response.rendered = NoValue
        /\ \A t \in Declared :
              /\ pc[t] = "ready" => ENABLED EngineBegin(t)
              /\ (pc[t] = "awaiting" /\ attempt[t] = 0) =>
                    ENABLED ( /\ EngineResume(t, ReplyText(T_prose))
                              /\ Len(sent'[t]) = 2
                              /\ pc'[t] = "awaiting"
                              /\ response' = response )
              /\ pc[t] = "awaiting" =>
                    ENABLED ( /\ EngineResume(t, ReplyText(T_good(t)))
                              /\ pc'[t] = "returned"
                              /\ response' = response )

\* Task 1 has failed and the caller has its error; task 2 still awaits the
\* reply to its first call, and task 3 has returned.
C29_Witness ==
    /\ Aborted
    /\ endpoint = "v2"
    /\ response.from = 1
    /\ response.status = 502
    /\ pc[2] = "awaiting"
    /\ attempt[2] = 0
    /\ Len(sent[2]) = 1
    /\ pc[3] = "returned"
    /\ finished = <<1, 3>>

(***************************************************************************)
(* Claims about configuration and gateway errors.                          *)
(***************************************************************************)
\* The setting is missing, or holds nothing but whitespace.
Blank(k) ==
    ~env[k].set \/ \A i \in DOMAIN env[k].value : env[k].value[i] \in Whitespace
ConfigMissing == \E k \in EnvNames : Blank(k)
NoGatewayCall == TotalCalls = 0 /\ rSent = <<>> /\ rGot = <<>>
IsConfigError(r) ==
    /\ r.kind = "error"
    /\ r.status = 500
    /\ r.detail = "Missing OPENAI_API_KEY, OPENAI_BASE_URL, or OPENAI_MODEL in environment/.env"

\* C15 as stated: with the API key, the base URL or the model missing or
\* blank, no gateway call is ever made and every answered request, on the
\* generate routes and on the refine route, got the configuration error
\* (HTTP 500).
C15_ConfigErrorAlways ==
    ConfigMissing =>
        /\ NoGatewayCall
        /\ req = "responded" => IsConfigError(response)
        /\ Answered => IsConfigError(rResp)

\* C15 as amended: with the API key, the base URL or the model missing or
\* blank, no gateway call is ever made; a generate request on either route
\* gets the configuration error (HTTP 500), and so does a refine request
\* unless its history already holds 3 user turns, which is rejected first
\* with the limit error (HTTP 400).
C15_ConfigErrorUnlessLimit ==
    ConfigMissing =>
        /\ NoGatewayCall
        /\ req = "responded" => IsConfigError(response)
        /\ (Answered /\ PriorUserTurns < MAX_REFINEMENTS) => IsConfigError(rResp)
        /\ (Answered /\ PriorUserTurns >= MAX_REFINEMENTS) =>
              rResp.status = 400 /\ rResp.detail = LimitDetail

C15_Witness ==
    /\ env = [GoodEnv EXCEPT !["OPENAI_BASE_URL"] = EnvSet(<<" ">>)]
    /\ endpoint = "refine"
    /\ Answered
    /\ PriorUserTurns = 2
    /\ IsConfigError(rResp)
    /\ rSent = <<>>

\* C16: a gateway call that raised a transport/HTTP error was the last
\* call of the engine invocation, whichever attempt it was: the call has
\* raised that same exception (not HTTP 502), the attempt counter was not
\* advanced and no corrective preamble was put before the prompt.
C16_TransportErrorPropagates ==
    \A t \in TaskIds : \A i \in 1..Len(got[t]) :
        got[t][i].kind = "raise" =>
            /\ i = Len(got[t])
            /\ Calls(t) = i
            /\ pc[t] = "raised"
            /\ out[t] = RaisedExc(got[t][i].exc)
            /\ out[t].status # 502
            /\ attempt[t] = i - 1
            /\ user[t] = sent[t][i].user

C16_Witness ==
    /\ retries[1] = 2
    /\ got[1] = <<ReplyText(T_prose), ReplyRaise("HTTPStatusError")>>
    /\ Calls(1) = 2
    /\ pc[1] = "raised"
    /\ out[1].exc = "HTTPStatusError"

\* {"table1": {"rows": []}}
FencedValue == JObj(MapPut(EmptyMap, K_table1, JObj(MapPut(EmptyMap, K_rows, EmptyArr))))

\* C17: a first reply of prose and a json fence around valid JSON is
\* accepted without a corrective retry: one gateway call, and the call
\* returns table1 = {"rows": []} with no assumptions_or_gaps of its own.
C17_FencedReplyAccepted ==
    \A t \in TaskIds :
        (Len(got[t]) >= 1 /\ got[t][1] = ReplyText(T_fenced)) =>
            /\ Calls(t) = 1
            /\ pc[t] = "returned"
            /\ out[t].val = FencedValue
            /\ PyGet(out[t].val, K_gaps, EmptyArr) = EmptyArr

\* A success carries no error and an error carries no document.
IsSuccess(r) == r.kind = "ok" /\ r.status = 200 /\ r.exc = "" /\ r.detail = ""
IsFailure(r) ==
    /\ r.kind = "error"
    /\ r.status \in {400, 500, 502}
    /\ r.extraction = NoValue
    /\ r.rendered = NoValue

C23_OneOutcome ==
    /\ req # "responded" => response = NoResp
    /\ req = "responded" =>
          /\ IsSuccess(response) # IsFailure(response)
          /\ IsSuccess(response) =>
                /\ \A t \in Declared : pc[t] = "returned"
                /\ endpoint = "v2" =>
                      /\ DOMAIN response.extraction.m = DocumentKeys
                      /\ response.rendered = response.extraction
                /\ endpoint = "v1" => Len(response.rendered.items) = NTasksV1
    /\ Answered =>
          /\ IsSuccess(rResp) # IsFailure(rResp)
          /\ IsSuccess(rResp) =>
                /\ rResp.extraction.t = "obj"
                /\ rResp.rendered = rResp.extraction

\* C23: when the server keeps running and every gateway call returns or
\* raises, a generate request is answered and a refine request that is
\* awaiting the gateway is answered; an answer is either a success with a
\* document built from the outputs of all declared tasks (all 13 keys on
\* v2; on refine the whole parsed reply) and no error, or one error
\* without a document; before the answer there is neither, and an answer
\* once given does not change.
C23_TerminatesWithOneOutcome ==
    /\ (endpoint \in {"v1", "v2"}) ~> (req = "responded")
    /\ (rpc = "awaiting") ~> (rpc = "idle")
    /\ []C23_OneOutcome
    /\ [][req = "responded" => (req' = req /\ response' = response)]_vars

\* Four tasks of five have returned, and the answer is the error of the
\* fifth, without a document.
C23_Witness ==
    /\ endpoint = "v2"
    /\ req = "responded"
    /\ pc[1] = "raised"
    /\ \A t \in 2..NTasksV2 : pc[t] = "returned"
    /\ IsFailure(response)
    /\ response.status = 502
    /\ ~IsSuccess(response)

\* C27: every value a call of the engine has returned is a JSON object; a
\* reply that parses to an array or to a scalar is not returned as a
\* success.
C27_ReturnsObject ==
    \A t \in TaskIds :
        pc[t] = "returned" =>
            /\ out[t].kind = "return"
            /\ out[t].val.t = "obj"

(***************************************************************************)
(* Claims about requests served at the same time.                          *)
(***************************************************************************)
\* What an engine call with the default retries makes of the replies g it
\* was given.
EngineOutcomeOf(g) ==
    IF g = <<>> THEN NoOut
    ELSE LET r == g[Len(g)] IN
         IF r.kind = "raise" THEN RaisedExc(r.exc)
         ELSE IF Parses(r) THEN Returned(JsonLoads(r).val)
         ELSE IF Len(g) = DefaultRetries + 1 THEN EngineFail(r)
         ELSE NoOut

\* The answer to the generate request, from its route, the environment,
\* the replies to its own calls and the order its own tasks finished in.
OwnGenerateOutcome ==
    IF ConfigMissing THEN ConfigError
    ELSE IF FailedAt # {}
         THEN ErrorResp(EngineOutcomeOf(got[FirstFailed]), FirstFailed)
    ELSE IF endpoint = "v2"
         THEN RespondV2([t \in 1..NTasksV2 |-> EngineOutcomeOf(got[t]).val])
    ELSE RespondV1([t \in 1..NTasksV1 |-> EngineOutcomeOf(got[t]).val])

\* The answer to the refine request, from its history, the environment and
\* the reply to its own call.
OwnRefineOutcome ==
    IF PriorUserTurns >= MAX_REFINEMENTS THEN LimitError
    ELSE IF ConfigMissing THEN ConfigError
    ELSE RefineOutcome(rGot[1], PriorUserTurns)

C22_OwnOutcome ==
    /\ req = "responded" => response = OwnGenerateOutcome
    /\ Answered => rResp = OwnRefineOutcome
    /\ \A t \in TaskIds :
          pc[t] \in {"returned", "raised"} => out[t] = EngineOutcomeOf(got[t])

GenerateState == <<engineVars, req, gather, finished, response>>
GenerateStep == GenerateState' # GenerateState
RefineStep == refineVars' # refineVars

\* C22: with a generate request and a refine request served at the same
\* time, in every interleaving, the answer to each request is the one its
\* own inputs and the replies to its own calls determine (for a fan-out,
\* in the order its own replies arrived), and no step of one request
\* changes anything the other request holds.
C22_NoInterference ==
    /\ []C22_OwnOutcome
    /\ [][ /\ RefineStep => UNCHANGED <<GenerateState, endpoint, env>>
           /\ GenerateStep => UNCHANGED <<refineVars, endpoint, env>> ]_vars

\* The refine request was answered while the fan-out of the generate
\* request was under way, task 1 on its retry.
C22_Witness ==
    /\ endpoint = "v2"
    /\ req = "gathering"
    /\ pc[1] = "awaiting"
    /\ attempt[1] = 1
    /\ pc[2] = "returned"
    /\ Answered
    /\ rResp.kind = "ok"
    /\ rResp.used = 3
    /\ rResp = OwnRefineOutcome

(***************************************************************************)
(* Claims about the normalizer and the truncation detector.                *)
(***************************************************************************)
CommasOf(s) == Cardinality({i \in DOMAIN s : s[i] = ","})
OpensOf(s) == Cardinality({i \in DOMAIN s : s[i] = "{" \/ s[i] = "["})
ClosesOf(s) == Cardinality({i \in DOMAIN s : s[i] = "}" \/ s[i] = "]"})

GroupCommas(s) ==
    {i \in 2..(Len(s) - 4) :
        /\ s[i] = ","
        /\ s[i - 1] \in Digits
        /\ s[i + 1] \in Digits /\ s[i + 2] \in Digits /\ s[i + 3] \in Digits
        /\ s[i + 4] \in {",", "}", "]", "\n"}}

\* {"a": 181000}
B_collapsed == SubSeq(B_thousands, 1, 9) \o SubSeq(B_thousands, 11, 14)

\* C19: normalize removes the comma of every thousands group that stands
\* before a structural character (181,000 before "}" becomes 181000), and
\* removes no comma that separates fields or array elements: a text that is
\* already valid JSON, such as [1,200], keeps all its commas.
C19_OnlyThousandsCommas ==
    Len(nTexts) >= 2 =>
        /\ CommasOf(nTexts[2]) <= CommasOf(nTexts[1]) - Cardinality(GroupCommas(nTexts[1]))
        /\ nTexts[1] = B_thousands => nTexts[2] = B_collapsed
        /\ ParseText(Text(nTexts[1])).ok => CommasOf(nTexts[2]) = CommasOf(nTexts[1])
        /\ nTexts[1] = B_pair => nTexts[2] = B_pair

\* C20: is_truncated is true of a text exactly when it holds more "{" and
\* "[" than "}" and "]": true of {"a": 1, "b": [1,2 and false of
\* {"a": 1}, and false of every text with as many closing as opening
\* brackets.
C20_TruncatedIffMoreOpens ==
    \A i \in DOMAIN nChecked :
        /\ nChecked[i].truncated <=> OpensOf(nChecked[i].text) > ClosesOf(nChecked[i].text)
        /\ nChecked[i].text = B_truncated => nChecked[i].truncated
        /\ nChecked[i].text = B_object => ~nChecked[i].truncated
        /\ OpensOf(nChecked[i].text) = ClosesOf(nChecked[i].text) => ~nChecked[i].truncated

C20_Witness ==
    /\ nTexts[1] = B_truncated
    /\ nChecked # <<>>
    /\ nChecked[1] = [text |-> B_truncated, truncated |-> TRUE]
    /\ OpensOf(B_truncated) = 2
    /\ ClosesOf(B_truncated) = 0
(***************************************************************************)
(* The documents of one generate request: filtered, then put together as   *)
(* the context of the prompts.                                             *)
(***************************************************************************)
T_lines ==
    <<Line(12, {"testing"}), Line(5, {}), BlankLine(0), Line(5, {}), Line(7, {}), Line(9, {})>>
T_blank == <<BlankLine(3)>>
T_nohit == <<Line(40, {})>>
T_limit == <<Line(FallbackChars, {})>>
T_over == <<Line(20000, {}), Line(10000, {})>>
T_huge == <<Line(70000, {"pi"})>>
DocTexts == {T_lines, T_blank, T_nohit, T_limit, T_over, T_huge}

NameA == <<"a", ".", "t", "x", "t">>
NameB == <<"b", ".", "p", "d", "f">>
DocLists ==
    {<<[filename |-> NameA, text |-> a]>> : a \in DocTexts}
        \cup {<<[filename |-> NameA, text |-> a], [filename |-> NameB, text |-> b]>> :
                  a \in DocTexts, b \in DocTexts}

\* [] is what generate_bid_excel_v2 passes (line 240); the other lists
\* stand for KEYWORDS_PROMPT_1..3 of generate_bid_excel.
KeywordLists == {<<>>, <<"PI", "testing">>, <<" ">>}

InitFilter ==
    /\ IdleServer
    /\ IdleGateway
    /\ fDocs \in DocLists
    /\ fKeywords \in KeywordLists
    /\ fDisable \in BOOLEAN
    /\ fOut = <<>>
    /\ fContext = <<>>
    /\ fpc = "ingested"

\* _maybe_filter(docs_full, keywords, disable_filter)
FilterDocs ==
    /\ fpc = "ingested"
    /\ fOut' = MaybeFilter(fDocs, fKeywords, fDisable)
    /\ fpc' = "filtered"
    /\ UNCHANGED <<fDocs, fKeywords, fDisable, fContext, gatewayVars,
                   engineVars, requestVars, refineVars, normVars>>

\* build_context(...)
ContextBuilt ==
    /\ fpc = "filtered"
    /\ fContext' = BuildContext(fOut)
    /\ fpc' = "built"
    /\ UNCHANGED <<fDocs, fKeywords, fDisable, fOut, gatewayVars,
                   engineVars, requestVars, refineVars, normVars>>

NextFilter ==
    \/ FilterDocs
    \/ ContextBuilt

SpecFilter == InitFilter /\ [][NextFilter]_vars

(***************************************************************************)
(* Claims about the document context.                                      *)
(***************************************************************************)

\* C25: with an empty keyword list and filtering not disabled, as in
\* generate_bid_excel_v2, every document's full text is passed on unchanged
\* as context, whatever its length.
C25_FullTextPassedOn ==
    (fpc \in {"filtered", "built"} /\ fKeywords = <<>> /\ ~fDisable) =>
        /\ \A i \in DOMAIN fDocs : fOut[i].text = fDocs[i].text
        /\ fpc = "built" => fContext = BuildContext(fDocs)

(***************************************************************************)
(* Claims about the chat-completion gateway call.                          *)
(***************************************************************************)

\* The body is a mapping whose "choices" is a non-empty list whose first
\* element is a mapping whose "message" is a mapping whose "content" is a
\* string.
HasContentShape(d) ==
    /\ d.t = "obj" /\ K_choices \in DOMAIN d.m
    /\ d.m[K_choices].t = "arr" /\ d.m[K_choices].items # <<>>
    /\ LET c == d.m[K_choices].items[1] IN
       /\ c.t = "obj" /\ K_message \in DOMAIN c.m
       /\ c.m[K_message].t = "obj" /\ K_content \in DOMAIN c.m[K_message].m
       /\ c.m[K_message].m[K_content].t = "str"

FirstContent(d) == d.m[K_choices].items[1].m[K_message].m[K_content]

\* C26: chat_json either returns the content string of the first choice's
\* message or fails: with the transport or HTTP error when the call or its
\* status fails, and with RuntimeError 'Unexpected response shape' for every
\* response body that lacks the choices[0].message.content shape.
C26_ContentOrSchemaError ==
    gwOut # NoOut =>
        /\ gwHttp.kind \in {"post", "status"} => gwOut = RaisedExc(gwHttp.exc)
        /\ (gwHttp.kind = "body" /\ HasContentShape(gwHttp.data)) =>
               gwOut = Returned(FirstContent(gwHttp.data))
        /\ (gwHttp.kind = "json" \/ (gwHttp.kind = "body" /\ ~HasContentShape(gwHttp.data))) =>
               gwOut = UnexpectedShape

=============================================================================
